---- MODULE Spec2Model ----
(***************************************************************************)
(* BioSim (strandxd/biosim_project): the annual cycle of herbivores and    *)
(* carnivores on an island of landscape cells.                             *)
(*                                                                         *)
(* Numbers.  Python floats are modelled in fixed point:                    *)
(*   weights, F, w_birth, sigma_birth, w_half    in tenths;                *)
(*   beta, eta, mu, gamma, zeta, xi, omega,                                *)
(*   phi_age, phi_weight, DeltaPhiMax            in thousandths;           *)
(*   fitness, probabilities and random.random()  in millionths.            *)
(* random.random() returns a value of [0, 1); the model draws its two      *)
(* extremes, so that `rand < p` is false for both when p <= 0, true for    *)
(* both when p >= 1 and can go either way in between.                      *)
(* Python's None is the empty sequence, a value v is <<v>>.                *)
(***************************************************************************)
EXTENDS Integers, Sequences, FiniteSets, TLC

\* ---------------------------------------------------------------- bounds

\* Organisms ever created in one run (initial, added and born).
MaxAnimals == 3
\* Simulated years in one run, over all simulate calls.
MaxYears == 2
\* Calls of add_population in one run.
MaxAdds == 1
\* Rows and columns inside the water border of the islands neighbor_cells is
\* tried on.
InnerRows == 3
InnerCols == 3
\* Lines of a map string handed to Island, and letters of one line.
MaxRows == 3
MaxCols == 3
\* Entries of a dict handed to set_animal_parameters.
MaxEntries == 3

\* ------------------------------------------------------------ fixed point

Thousand == 10 * 100
FitOne == 1000 * 1000
None == << >>
Some(v) == << v >>
IsNone(o) == o = << >>
Min(a, b) == IF a <= b THEN a ELSE b
\* coef * x for a coefficient in thousandths: (coef * x) \div 1000, computed in
\* two parts that stay within 32 bits.
Times(coef, x) == (coef \div Thousand) * x + ((coef % Thousand) * x) \div Thousand

\* random.random(): the smallest and the largest value it returns.
RandDraws == {0, FitOne - 1}
\* random.normalvariate(w_birth, sigma_birth) = w_birth + z * sigma_birth:
\* one deviation below and above the mean, and a draw far enough below it to
\* be no weight at all (a normal variate has no lower bound).
ZDraws == {0 - 6, 0 - 1, 1}
MigrationMoves == {"Up", "Right", "Down", "Left"}

Species == {"Herbivore", "Carnivore"}
SpeciesOrder == << "Herbivore", "Carnivore" >>

\* ------------------------------------------------------ species parameters

\* The class attributes of Herbivore and Carnivore, and f_max of Lowland (in
\* tenths), as the source sets them.
DefaultParams ==
    [Herbivore |-> [w_birth |-> 80, sigma_birth |-> 15, beta |-> 900, eta |-> 50,
                    a_half |-> 40, phi_age |-> 600, w_half |-> 100,
                    phi_weight |-> 100, mu |-> 250, gamma |-> 200, zeta |-> 3500,
                    xi |-> 1200, omega |-> 400, F |-> 100, DeltaPhiMax |-> None,
                    species |-> "Herbivore"],
     Carnivore |-> [w_birth |-> 60, sigma_birth |-> 10, beta |-> 750, eta |-> 125,
                    a_half |-> 40, phi_age |-> 300, w_half |-> 40,
                    phi_weight |-> 400, mu |-> 400, gamma |-> 800, zeta |-> 3500,
                    xi |-> 1100, omega |-> 800, F |-> 500,
                    DeltaPhiMax |-> Some(10000), species |-> "Carnivore"],
     Lowland |-> [f_max |-> Some(8000)]]

\* A parameter set installed through set_animal_parameters and
\* set_landscape_parameters right after construction (every value passes its
\* validation): a lowland with less fodder than one appetite; herbivores with no birth-weight
\* spread, a birth cost equal to the birth weight and certain births;
\* carnivores with the herbivores' fitness curve, a small fitness-gap cap and
\* an appetite below the weight of one prey.
TunedParams ==
    [Herbivore |-> [DefaultParams.Herbivore EXCEPT
                    !.sigma_birth = 0, !.xi = 1000, !.zeta = 1000,
                    !.gamma = 10000],
     Carnivore |-> [DefaultParams.Carnivore EXCEPT
                    !.phi_age = 600, !.w_half = 100, !.phi_weight = 100,
                    !.DeltaPhiMax = Some(300), !.F = 50],
     Lowland |-> [f_max |-> Some(50)]]

ParamSets == {DefaultParams, TunedParams}

\* ---------------------------------------------------------------- fitness

\* 1000 / (1 + e^k) for k = -7 .. 7, at index k + 8.
SigTable == << 999, 998, 993, 982, 953, 881, 731, 500, 269, 119, 47, 18, 7, 2, 1 >>

\* 1 / (1 + e^x) in thousandths, x given in tenths: the table, linearly
\* interpolated, and its end values beyond -7 and 7.
Sigmoid(x10) ==
    LET k == x10 \div 10
        f == x10 % 10
    IN  IF k < 0 - 7 THEN SigTable[1]
        ELSE IF k >= 7 THEN SigTable[15]
        ELSE SigTable[k + 8] - ((SigTable[k + 8] - SigTable[k + 9]) * f) \div 10

\* Animal.fitness_update: the value it stores.
FitnessValue(p, age, weight) ==
    IF weight > 0
    THEN Sigmoid((p.phi_age * (age - p.a_half)) \div 100)
         * Sigmoid((0 - p.phi_weight * (weight - p.w_half)) \div 1000)
    ELSE 0

FitnessUpdate(p, a) == [a EXCEPT !.fitness = FitnessValue(p, a.age, a.weight)]

\* ----------------------------------------------------------------- Animal

\* Animal.__init__: the three checks that raise ValueError.
InitRaises(age, weight, position) ==
    \/ age < 0
    \/ weight <= 0
    \/ Len(position) # 2

\* Animal.__init__ past its checks.  (_birth_weight_baby and weight_loss are
\* scratch attributes, written before every read; _migration_moves is the
\* shuffled list whose first element is the move drawn.)
NewAnimal(p, age, weight, position) ==
    FitnessUpdate(p,
        [species |-> p.species, age |-> age, weight |-> weight,
         position |-> position, fitness |-> 0, given_birth |-> FALSE,
         given_birth_year |-> None, death_status |-> FALSE,
         migration_status |-> FALSE])

\* age_increase if it left the age as it is.
AgeIncreaseNone(p, a) == FitnessUpdate(p, a)

AgeIncrease(p, a) == FitnessUpdate(p, [a EXCEPT !.age = a.age + 1])

YearlyWeightUpdate(p, a) ==
    LET w == a.weight - Times(p.eta, a.weight)
    IN  FitnessUpdate(p, [a EXCEPT !.weight = IF w < 0 THEN 0 ELSE w])

\* update_death_status if it decided anew on every call.
UpdateDeathStatusRedrawn(p, a, eaten, rand) ==
    [a EXCEPT !.death_status =
        eaten \/ rand < Times(p.omega, FitOne - a.fitness) \/ a.weight <= 0]

UpdateDeathStatus(p, a, eaten, rand) ==
    IF eaten \/ a.death_status
    THEN [a EXCEPT !.death_status = TRUE]
    ELSE LET prob_death == Times(p.omega, FitOne - a.fitness)
         IN  IF rand < prob_death \/ a.weight <= 0
             THEN [a EXCEPT !.death_status = TRUE]
             ELSE a

UpdatePosition(a, pos) == [a EXCEPT !.position = pos]

\* check_if_animal_migrates if it did not look at migration_status.
CheckIfAnimalMigratesAgain(p, a, rand) ==
    [animal |-> [a EXCEPT !.migration_status = TRUE],
     result |-> rand < Times(p.mu, a.fitness)]

\* check_if_animal_migrates if it did not set migration_status.
CheckIfAnimalMigratesNoFlag(p, a, rand) ==
    IF a.migration_status
    THEN [animal |-> a, result |-> FALSE]
    ELSE [animal |-> a, result |-> rand < Times(p.mu, a.fitness)]

\* check_if_animal_migrates: the animal after the call and the value returned.
CheckIfAnimalMigrates(p, a, rand) ==
    IF a.migration_status
    THEN [animal |-> a, result |-> FALSE]
    ELSE LET migrate_prob == Times(p.mu, a.fitness)
         IN  [animal |-> [a EXCEPT !.migration_status = TRUE],
              result |-> rand < migrate_prob]

MigrationMap ==
    [Up |-> << 0 - 1, 0 >>, Right |-> << 0, 1 >>,
     Down |-> << 1, 0 >>, Left |-> << 0, 0 - 1 >>]

\* choose_migration_move: the potential position for the move drawn.
ChooseMigrationMove(a, move) ==
    << a.position[1] + MigrationMap[move][1], a.position[2] + MigrationMap[move][2] >>

CalculateBirthWeight(p, z) == p.w_birth + z * p.sigma_birth

AlreadyGivenBirthYear(a, year) ==
    ~IsNone(a.given_birth_year) /\ a.given_birth_year[1] = year

\* _check_birth_conditions: the four conditions, the weight drawn for the
\* baby and the weight the parent would lose.
CheckBirthConditions(p, a, N, year, rand, z) ==
    LET birth_prob == Min(FitOne, Times(p.gamma * (N - 1), a.fitness))
        birth_weight_baby == CalculateBirthWeight(p, z)
        weight_loss == Times(p.xi, birth_weight_baby)
        condition_1 == rand < birth_prob
        condition_2 == a.weight * Thousand >= p.zeta * (p.w_birth + p.sigma_birth)
        condition_3 == ~AlreadyGivenBirthYear(a, year)
        condition_4 == a.weight >= weight_loss
    IN  [ok |-> condition_1 /\ condition_2 /\ condition_3 /\ condition_4,
         birth_weight_baby |-> birth_weight_baby,
         weight_loss |-> weight_loss]

\* give_birth once _check_birth_conditions has returned c: the parent after
\* the call, the baby returned (None when the conditions fail) and whether
\* constructing the baby raised ValueError.
GiveBirthAfter(p, a, year, c) ==
    IF c.ok
    THEN [parent |-> [a EXCEPT !.weight = a.weight - c.weight_loss,
                               !.given_birth = TRUE,
                               !.given_birth_year = Some(year)],
          baby |-> IF InitRaises(0, c.birth_weight_baby, a.position) THEN None
                   ELSE Some(NewAnimal(p, 0, c.birth_weight_baby, a.position)),
          raises |-> InitRaises(0, c.birth_weight_baby, a.position)]
    ELSE [parent |-> [a EXCEPT !.given_birth = FALSE],
          baby |-> None, raises |-> FALSE]

GiveBirth(p, a, N, year, rand, z) ==
    GiveBirthAfter(p, a, year, CheckBirthConditions(p, a, N, year, rand, z))

\* update_weight_post_eat: food_eaten None means the full appetite F.
UpdateWeightPostEat(p, a, food_eaten) ==
    LET food == IF IsNone(food_eaten) THEN p.F ELSE food_eaten[1]
    IN  FitnessUpdate(p, [a EXCEPT !.weight = a.weight + Times(p.beta, food)])

\* check_excessive_eating if it always returned the weight of the prey.
CheckExcessiveEatingAll(p, weight_prey, eaten_in_total) == weight_prey

CheckExcessiveEating(p, weight_prey, eaten_in_total) ==
    IF weight_prey + eaten_in_total > p.F
    THEN p.F - eaten_in_total
    ELSE weight_prey

\* ----------------------------------------------------------------- Island

\* The island_map string, one sequence of letters per line.
IslandMap ==
    << << "W", "W", "W", "W" >>,
       << "W", "L", "D", "W" >>,
       << "W", "W", "W", "W" >> >>

\* Landscape class attributes: f_max (in tenths) and legal_land_type.
LandTypes ==
    [L |-> [f_max |-> Some(8000), legal_land_type |-> TRUE],
     H |-> [f_max |-> Some(3000), legal_land_type |-> TRUE],
     D |-> [f_max |-> None, legal_land_type |-> TRUE],
     W |-> [f_max |-> None, legal_land_type |-> FALSE]]

\* build_island: the keys of complete_map, 1-indexed, and their insertion
\* order (row by row), which is the order year_loop visits the cells in.
Coords == {<< r, c >> : r \in 1..Len(IslandMap), c \in 1..Len(IslandMap[1])}

CompleteMap == [pos \in Coords |-> LandTypes[IslandMap[pos[1]][pos[2]]]]

CellOrder ==
    [k \in 1..(Len(IslandMap) * Len(IslandMap[1])) |->
        << ((k - 1) \div Len(IslandMap[1])) + 1, ((k - 1) % Len(IslandMap[1])) + 1 >>]

LegalCell(pos) == CompleteMap[pos].legal_land_type

\* _map_moves if it began with 'Left'.
MapMovesLeftFirst == << << 0, 0 - 1 >>, << 0 - 1, 0 >>, << 0, 1 >>, << 1, 0 >> >>

\* Island._map_moves: Up, Right, Down, Left.
MapMoves == << << 0 - 1, 0 >>, << 0, 1 >>, << 1, 0 >>, << 0, 0 - 1 >> >>

\* Island.complete_map for IslandMap: coordinate -> letter of the cell's class.
LetterMap == [pos \in Coords |-> IslandMap[pos[1]][pos[2]]]

RECURSIVE NeighborCellsIn(_, _, _)
\* The loop of neighbor_cells over _map_moves from the k-th move on, on the
\* map cm: complete_map[(temp_row, temp_col)] raises KeyError for a
\* coordinate that is no key, and a cell that is no legal land type gives no
\* coordinate either.
NeighborCellsIn(cm, current_pos, k) ==
    IF k > Len(MapMoves) THEN << >>
    ELSE IF /\ << current_pos[1] + MapMoves[k][1], current_pos[2] + MapMoves[k][2] >>
                   \in DOMAIN cm
            /\ LandTypes[cm[<< current_pos[1] + MapMoves[k][1],
                               current_pos[2] + MapMoves[k][2] >>]].legal_land_type
    THEN << << current_pos[1] + MapMoves[k][1], current_pos[2] + MapMoves[k][2] >> >>
             \o NeighborCellsIn(cm, current_pos, k + 1)
    ELSE NeighborCellsIn(cm, current_pos, k + 1)

\* neighbor_cells of the island of IslandMap: the legal neighbouring
\* coordinates, in the order of the moves.
NeighborCellsFrom(current_pos, k) == NeighborCellsIn(LetterMap, current_pos, k)

\* neighbor_cells if it returned every neighbouring coordinate.
NeighborCellsAll(current_pos) ==
    [k \in DOMAIN MapMoves |->
        << current_pos[1] + MapMoves[k][1], current_pos[2] + MapMoves[k][2] >>]

NeighborCells(current_pos) == NeighborCellsFrom(current_pos, 1)

\* -------------------------------------------------------------- sequences

Range(s) == {s[k] : k \in DOMAIN s}

RECURSIVE SelectSeqBy(_, _)
\* The elements of s whose index is in keep, in order.
SelectSeqBy(s, keep) ==
    IF s = << >> THEN << >>
    ELSE LET n == Len(s)
             front == SelectSeqBy(SubSeq(s, 1, n - 1), keep)
         IN  IF n \in keep THEN Append(front, s[n]) ELSE front

\* random.shuffle: every ordering of the list.
Shuffles(s) ==
    {[k \in DOMAIN s |-> s[f[k]]] :
        f \in {g \in [DOMAIN s -> DOMAIN s] : \A i, j \in DOMAIN s : g[i] = g[j] => i = j}}

RECURSIVE InsertByFitness(_, _, _, _)
\* x placed behind every element that does not have to follow it.
InsertByFitness(an, x, s, reverse) ==
    IF s = << >> THEN << x >>
    ELSE IF (IF reverse THEN an[Head(s)].fitness < an[x].fitness
                        ELSE an[Head(s)].fitness > an[x].fitness)
         THEN << x >> \o s
         ELSE << Head(s) >> \o InsertByFitness(an, x, Tail(s), reverse)

RECURSIVE SortedByFitness(_, _, _)
\* sorted(s, key=fitness, reverse=reverse): stable in both directions.
SortedByFitness(an, s, reverse) ==
    IF s = << >> THEN << >>
    ELSE InsertByFitness(an, s[Len(s)],
                         SortedByFitness(an, SubSeq(s, 1, Len(s) - 1), reverse), reverse)

\* ------------------------------------------------------------ build_island

\* A string is the sequence of its characters.
Newline == "\n"

\* The letters of land_letter_map.
LandLetters == DOMAIN LandTypes

RECURSIVE JoinLines(_)
\* The island_map string of a map written one line per row: the lines with a
\* newline between them.
JoinLines(lines) ==
    IF lines = << >> THEN << >>
    ELSE IF Len(lines) = 1 THEN lines[1]
    ELSE lines[1] \o << Newline >> \o JoinLines(Tail(lines))

\* island_map.replace('\n', '')
StripNewlines(s) == SelectSeq(s, LAMBDA ch : ch # Newline)

RECURSIVE SplitLinesFrom(_, _)
\* str.splitlines of s after the characters of `line`: no line follows the
\* last newline of a string that ends with one.
SplitLinesFrom(s, line) ==
    IF s = << >> THEN (IF line = << >> THEN << >> ELSE << line >>)
    ELSE IF Head(s) = Newline THEN << line >> \o SplitLinesFrom(Tail(s), << >>)
    ELSE SplitLinesFrom(Tail(s), Append(line, Head(s)))

\* island_map.splitlines()
SplitLines(s) == SplitLinesFrom(s, << >>)

\* Some letter of the string is not in legal_land_letters.
AnyIllegal(stripped) == \E k \in DOMAIN stripped : stripped[k] \notin LandLetters

\* Island._check_map_legal_characters.  (A check, and build_island, end with
\* "ok" or with the exception they raise.)
CheckMapLegalCharacters(s) ==
    IF AnyIllegal(StripNewlines(s)) THEN "ValueError" ELSE "ok"

\* Island._check_map_line_length (lines[0] of no line at all is an IndexError).
CheckMapLineLength(lines) ==
    IF lines = << >> THEN "IndexError"
    ELSE IF \E k \in 2..Len(lines) : Len(lines[k]) # Len(lines[1]) THEN "ValueError"
    ELSE "ok"

RECURSIVE CheckMiddleLines(_, _)
\* The third loop of _check_map_edges from line k on: line[0] and line[-1] of
\* the lines between the first and the last (line[0] of an empty line is an
\* IndexError).
CheckMiddleLines(lines, k) ==
    IF k >= Len(lines) THEN "ok"
    ELSE IF lines[k] = << >> THEN "IndexError"
    ELSE IF lines[k][1] # "W" \/ lines[k][Len(lines[k])] # "W" THEN "ValueError"
    ELSE CheckMiddleLines(lines, k + 1)

\* _check_map_edges if it looked at the first and the last line only.
CheckMapEdgesRowsOnly(lines) ==
    IF \E c \in DOMAIN lines[1] : lines[1][c] # "W" THEN "ValueError"
    ELSE IF \E c \in DOMAIN lines[Len(lines)] : lines[Len(lines)][c] # "W"
    THEN "ValueError"
    ELSE "ok"

\* Island._check_map_edges
CheckMapEdges(lines) ==
    IF \E c \in DOMAIN lines[1] : lines[1][c] # "W" THEN "ValueError"
    ELSE IF \E c \in DOMAIN lines[Len(lines)] : lines[Len(lines)][c] # "W"
    THEN "ValueError"
    ELSE CheckMiddleLines(lines, 2)

RECURSIVE BuildLoop(_, _, _, _, _)
\* The loop of build_island over the characters of island_map from the k-th
\* on: complete_map.update({(row_pos, col_pos): land_letter_map[char]}); a
\* cell is given by the letter of its class.
BuildLoop(s, k, row_pos, col_pos, cm) ==
    IF k > Len(s) THEN cm
    ELSE IF s[k] # Newline
    THEN BuildLoop(s, k + 1, row_pos, col_pos + 1,
                   (<< row_pos, col_pos >> :> s[k]) @@ cm)
    ELSE BuildLoop(s, k + 1, row_pos + 1, 1, cm)

\* Island.build_island on the empty complete_map of Island.__init__: the
\* three checks in their order, then the loop.
BuildIsland(s) ==
    IF CheckMapLegalCharacters(s) # "ok"
    THEN [raises |-> CheckMapLegalCharacters(s), complete_map |-> << >>]
    ELSE IF CheckMapLineLength(SplitLines(s)) # "ok"
    THEN [raises |-> CheckMapLineLength(SplitLines(s)), complete_map |-> << >>]
    ELSE IF CheckMapEdges(SplitLines(s)) # "ok"
    THEN [raises |-> CheckMapEdges(SplitLines(s)), complete_map |-> << >>]
    ELSE [raises |-> "ok", complete_map |-> BuildLoop(s, 1, 1, 1, << >>)]

\* -------------------------------------------------------- update_attributes

\* get_attributes: the names of the class's own __dict__ that are neither
\* dunder names nor methods.  Herbivore defines no DeltaPhiMax of its own (it
\* reads the None of Animal), Carnivore does.
GetAttributes(species) ==
    IF species = "Herbivore" THEN DOMAIN DefaultParams.Herbivore \ {"DeltaPhiMax"}
    ELSE DOMAIN DefaultParams.Carnivore

\* The checks of update_attributes if eta had no upper limit.
EntryRaisesNoLimit(names, attribute_name, new_value) ==
    IF attribute_name \notin names THEN TRUE
    ELSE IF attribute_name = "species" THEN TRUE
    ELSE IF attribute_name = "DeltaPhiMax" /\ new_value <= 0 THEN TRUE
    ELSE new_value < 0

\* The checks update_attributes makes on one entry, in their order: TRUE when
\* one of them raises ValueError.  (eta is in thousandths.)
EntryRaises(names, attribute_name, new_value) ==
    IF attribute_name \notin names THEN TRUE
    ELSE IF attribute_name = "species" THEN TRUE
    ELSE IF attribute_name = "eta" /\ new_value > Thousand THEN TRUE
    ELSE IF attribute_name = "DeltaPhiMax" /\ new_value <= 0 THEN TRUE
    ELSE new_value < 0

\* setattr(cls, attribute_name, new_value)
SetAttr(attrs, attribute_name, new_value) ==
    [attrs EXCEPT ![attribute_name] =
        IF attribute_name = "DeltaPhiMax" THEN Some(new_value) ELSE new_value]

RECURSIVE UpdateLoop(_, _, _, _)
\* The loop of update_attributes over the items of the dict (a sequence of
\* << name, value >> in insertion order) from the k-th on; `at` is the item
\* that raised.
UpdateLoop(attrs, names, items, k) ==
    IF k > Len(items) THEN [attrs |-> attrs, raises |-> FALSE, at |-> 0]
    ELSE IF EntryRaises(names, items[k][1], items[k][2])
    THEN [attrs |-> attrs, raises |-> TRUE, at |-> k]
    ELSE UpdateLoop(SetAttr(attrs, items[k][1], items[k][2]), names, items, k + 1)

\* update_attributes if it put the old values back when an item raises.
UpdateAttributesAtomic(attrs, names, items) ==
    [UpdateLoop(attrs, names, items, 1) EXCEPT
        !.attrs = IF UpdateLoop(attrs, names, items, 1).raises THEN attrs ELSE @]

\* Animal.update_attributes
UpdateAttributes(attrs, names, items) == UpdateLoop(attrs, names, items, 1)

\* BioSim.set_animal_parameters: the class attributes after the call, and
\* whether it raised.
SetAnimalParametersResult(p, species, items) ==
    IF species \in Species
    THEN [params |-> [p EXCEPT ![species] =
                         UpdateAttributes(p[species], GetAttributes(species), items).attrs],
          raises |-> UpdateAttributes(p[species], GetAttributes(species), items).raises,
          at |-> UpdateAttributes(p[species], GetAttributes(species), items).at]
    ELSE [params |-> p, raises |-> TRUE, at |-> 0]

\* --------------------------------------------------------- get_total_animals

\* get_total_animals if it did not reset the counters of the species.
ResetCountersKept(counts) == counts

\* `self._total_animals_species[species] = 0` for every species
ResetCounters(counts) == [species \in DOMAIN counts |-> 0]

RECURSIVE CountCells(_, _, _)
\* The loop of get_total_animals over complete_map.items() from the k-th on.
CountCells(ca, k, counts) ==
    IF k > Len(CellOrder) THEN counts
    ELSE IF LegalCell(CellOrder[k])
    THEN CountCells(ca, k + 1,
                    [species \in DOMAIN counts |->
                        counts[species] + Len(ca[CellOrder[k]][species])])
    ELSE CountCells(ca, k + 1, counts)

\* The last loop of get_total_animals and its return value.
TotalOf(counts) ==
    [species |-> counts, total |-> 0 + counts.Herbivore + counts.Carnivore]

\* Island.get_total_animals with the counters earlier calls have left
GetTotalAnimals(counts, ca) == TotalOf(CountCells(ca, 1, ResetCounters(counts)))

\* ------------------------------------------------------------------ state

VARIABLES
    params,          \* species name -> class attributes of that species
    animals,         \* organism id -> the Animal object (ids are never reused)
    next_id,         \* the id the next organism created gets
    cell_animals,    \* coordinate -> Landscape.animals (species -> list of ids)
    available_food,  \* coordinate -> Landscape.available_food
    total_animals,   \* coordinate -> Landscape.total_animals
    sim_year,        \* BioSim._year
    year,            \* the loop variable of BioSim.simulate
    num_years,       \* the argument of the running simulate call
    pc,              \* "idle", "loop", "cells", "year_end" or "raised"
    at,              \* position in year_loop: [phase, idx, step]
    adds,            \* history: the calls of add_population so far
    hist,            \* history: organism id -> [born, born_pos, last_birth]
    done,            \* history: coordinate -> last step of this year done on it
    hunt_log,        \* history: the prey considered in the last feeding_carnivores
    island_map,      \* Island.island_map: the string the island is built from
    complete_map,    \* Island.complete_map: coordinate -> letter of the cell's class
    built,           \* "new", "ok" or the exception build_island raised
    total_animals_species,  \* Island._total_animals_species
    island_total,    \* Island._total_animals
    last_update,     \* history: the last call of set_animal_parameters
    neighbors,       \* the last call of neighbor_cells: its argument and result
    before_migration,  \* history: the counts per species when the migration began
    year_start,      \* history: organism id -> [age, position] when the year began
    moves,           \* history: organism id -> changes of cell this year
    stream,          \* the values the random module has given since random.seed(seed), by position
    stream_pos,      \* how many values have been drawn since the last random.seed
    sims_built,      \* how many BioSim objects have been built with the seed
    running,         \* which of them the state above is the state of
    trajectory,      \* the total population after each year of the running one
    first_trajectory,  \* the trajectory of the first, once the second is the running one
    initial_pop,     \* BioSim._ini_pop, when a second simulation is to be built from it
    run_from         \* stream_pos when the running simulation began to simulate

\* The state of the island's construction.
map_vars == << island_map, complete_map, built >>

\* The counters of get_total_animals.
count_vars == << total_animals_species, island_total >>

vars == << params, animals, next_id, cell_animals, available_food, total_animals,
           sim_year, year, num_years, pc, at, adds, hist, done, hunt_log,
           island_map, complete_map, built, total_animals_species, island_total,
           last_update, neighbors, before_migration, year_start, moves,
           stream, stream_pos, sims_built, running, trajectory, first_trajectory,
           initial_pop, run_from >>

\* The random stream and the simulations built on it.
seed_vars == << stream, stream_pos, sims_built, running, trajectory,
               first_trajectory, initial_pop, run_from >>

\* No value has been drawn and one simulation has been built.
Unseeded ==
    /\ stream = << >>
    /\ stream_pos = 0
    /\ sims_built = 1
    /\ running = 1
    /\ trajectory = << >>
    /\ first_trajectory = << >>
    /\ initial_pop = << >>
    /\ run_from = 0

\* What is recorded of the running year.
year_vars == << before_migration, year_start, moves >>

ParamsOf(an, id) == params[an[id].species]

\* The ids in the lists of one cell, herbivores first (the order of the dict).
CellList(ca, pos) == ca[pos].Herbivore \o ca[pos].Carnivore

RECURSIVE OccurrencesUpTo(_, _, _)
\* How often id occurs in the lists of the first k cells.
OccurrencesUpTo(ca, id, k) ==
    IF k = 0 THEN 0
    ELSE Cardinality({j \in DOMAIN CellList(ca, CellOrder[k]) :
                         CellList(ca, CellOrder[k])[j] = id})
         + OccurrencesUpTo(ca, id, k - 1)

\* How often id occurs in the lists of all cells.
Occurrences(ca, id) == OccurrencesUpTo(ca, id, Len(CellOrder))

\* ------------------------------------------------- adding a population

RECURSIVE Flatten(_, _, _)
\* store_new_population: one record per animal, in the order of the lists.
Flatten(population_list, i, j) ==
    IF i > Len(population_list) THEN << >>
    ELSE IF j > Len(population_list[i].pop) THEN Flatten(population_list, i + 1, 1)
    ELSE << [species |-> population_list[i].pop[j].species,
             age |-> population_list[i].pop[j].age,
             weight |-> population_list[i].pop[j].weight,
             loc |-> population_list[i].loc] >>
         \o Flatten(population_list, i, j + 1)

\* store_new_population raises (KeyError for an unknown species, ValueError
\* from Animal.__init__) before any animal is added to a cell.
StoreRaises(population_list) ==
    \E k \in DOMAIN Flatten(population_list, 1, 1) :
        LET r == Flatten(population_list, 1, 1)[k]
        IN  r.species \notin Species \/ InitRaises(r.age, r.weight, r.loc)

RECURSIVE AddLoop(_, _, _, _, _, _, _)
\* The loop over the new animals: complete_map[animal.position] raises
\* KeyError for a position that is no key, add_animals_to_cell appends and
\* counts.  Returns the state the loop leaves.
AddLoop(recs, k, an, hs, ca, tot, nid) ==
    IF k > Len(recs)
    THEN [animals |-> an, hist |-> hs, cell_animals |-> ca, total_animals |-> tot,
          next_id |-> nid, raises |-> FALSE]
    ELSE IF recs[k].loc \notin Coords
    THEN [animals |-> an, hist |-> hs, cell_animals |-> ca, total_animals |-> tot,
          next_id |-> nid, raises |-> TRUE]
    ELSE LET r == recs[k]
             a == NewAnimal(params[r.species], r.age, r.weight, r.loc)
         IN  AddLoop(recs, k + 1,
                     an @@ (nid :> a),
                     hs @@ (nid :> [born |-> None, born_pos |-> r.loc, last_birth |-> None]),
                     [ca EXCEPT ![r.loc][r.species] = Append(@, nid)],
                     [tot EXCEPT ![r.loc] = @ + 1],
                     nid + 1)

\* BioSim.add_population on the island as it is: store_new_population, then
\* the loop over the new animals.  raises tells whether the call ended with
\* an exception.
AddPopulationTo(population, an, hs, ca, tot, nid) ==
    IF StoreRaises(population)
    THEN [animals |-> an, hist |-> hs, cell_animals |-> ca, total_animals |-> tot,
          next_id |-> nid, raises |-> TRUE]
    ELSE AddLoop(Flatten(population, 1, 1), 1, an, hs, ca, tot, nid)

\* -------------------------------------------------------------- Landscape

\* yearly_updates: the flags of the residents of one cell reset.
YearlyUpdates(an, ids) ==
    [i \in DOMAIN an |->
        IF i \in ids
        THEN [an[i] EXCEPT !.given_birth = FALSE, !.migration_status = FALSE]
        ELSE an[i]]

RECURSIVE FeedLoop(_, _, _, _)
\* feeding_herbivores from the k-th herbivore on: the animals and the food left.
FeedLoop(an, herbs, k, food) ==
    IF k > Len(herbs) THEN [animals |-> an, available_food |-> food]
    ELSE LET herb == herbs[k]
             p == ParamsOf(an, herb)
         IN  IF ~IsNone(food) /\ p.F <= food[1]
             THEN FeedLoop([an EXCEPT ![herb] = UpdateWeightPostEat(p, an[herb], None)],
                           herbs, k + 1, Some(food[1] - p.F))
             ELSE IF ~IsNone(food) /\ food[1] > 0
             THEN FeedLoop([an EXCEPT ![herb] = UpdateWeightPostEat(p, an[herb], food)],
                           herbs, k + 1, Some(food[1] - food[1]))
             ELSE [animals |-> an, available_food |-> food]

\* feeding_herbivores if every herbivore ate its appetite whatever is left.
FeedingHerbivoresGreedy(an, herbs, food) ==
    IF IsNone(food) THEN [animals |-> an, available_food |-> food]
    ELSE [animals |-> [i \in DOMAIN an |->
                          IF i \in Range(herbs)
                          THEN UpdateWeightPostEat(ParamsOf(an, i), an[i], None)
                          ELSE an[i]],
          available_food |-> Some(food[1] - Len(herbs) * params.Herbivore.F)]

FeedingHerbivores(an, herbs, food) == FeedLoop(an, herbs, 1, food)

\* hunt if its second test were `self._fitness < prey.fitness`.
HuntOutcomeNonStrict(p, hunter, prey, rand) ==
    IF prey.death_status THEN "skip"
    ELSE IF hunter.fitness < prey.fitness THEN "skip"
    ELSE IF /\ 0 < hunter.fitness - prey.fitness
            /\ hunter.fitness - prey.fitness < p.DeltaPhiMax[1] * Thousand
    THEN IF rand < ((hunter.fitness - prey.fitness) * Thousand) \div p.DeltaPhiMax[1]
         THEN "kill" ELSE "miss"
    ELSE "kill"

\* hunt, one prey of the loop: "skip" (continue), "miss" or "kill".
HuntOutcome(p, hunter, prey, rand) ==
    IF prey.death_status THEN "skip"
    ELSE IF hunter.fitness <= prey.fitness THEN "skip"
    ELSE IF /\ 0 < hunter.fitness - prey.fitness
            /\ hunter.fitness - prey.fitness < p.DeltaPhiMax[1] * Thousand
    THEN IF rand < ((hunter.fitness - prey.fitness) * Thousand) \div p.DeltaPhiMax[1]
         THEN "kill" ELSE "miss"
    ELSE "kill"

\* hunt, a kill: the hunter eats what check_excessive_eating allows, the prey
\* is marked dead.
Kill(an, carn, prey, eaten_in_total, rand) ==
    [an EXCEPT
       ![carn] = UpdateWeightPostEat(ParamsOf(an, carn), an[carn],
                     Some(CheckExcessiveEating(ParamsOf(an, carn), an[prey].weight,
                                               eaten_in_total))),
       ![prey] = UpdateDeathStatus(ParamsOf(an, prey), an[prey], TRUE, rand)]

\* What the history keeps of one prey of the loop.
HuntEntry(an, carn, prey, eaten_in_total, rand, outcome) ==
    [hunter |-> carn, prey |-> prey,
     hunter_fitness |-> an[carn].fitness,
     prey_fitness |-> an[prey].fitness,
     prey_dead |-> an[prey].death_status,
     prey_weight |-> an[prey].weight,
     hunter_weight |-> an[carn].weight,
     rand |-> rand, killed |-> outcome = "kill",
     eaten_before |-> eaten_in_total,
     weight_gain |-> IF outcome = "kill"
                     THEN CheckExcessiveEating(ParamsOf(an, carn), an[prey].weight,
                                               eaten_in_total)
                     ELSE 0]

RECURSIVE HuntLoop(_, _, _, _, _, _, _)
RECURSIVE HuntPrey(_, _, _, _, _, _, _, _)
\* hunt from the k-th prey of the hunting order on; rands[prey] is the number
\* random.random() returns if it is called for that prey.  A skipped prey
\* continues past the test that ends the loop.
HuntLoop(an, carn, order, k, eaten_in_total, rands, log) ==
    IF k > Len(order) THEN [animals |-> an, log |-> log]
    ELSE HuntPrey(an, carn, order, k, eaten_in_total, rands, log,
                  HuntOutcome(ParamsOf(an, carn), an[carn], an[order[k]],
                              rands[order[k]]))

\* The body of the loop for the k-th prey, given the outcome for it.
HuntPrey(an, carn, order, k, eaten_in_total, rands, log, outcome) ==
    IF outcome = "skip"
    THEN HuntLoop(an, carn, order, k + 1, eaten_in_total, rands,
                  Append(log, HuntEntry(an, carn, order[k], eaten_in_total,
                                        rands[order[k]], outcome)))
    ELSE IF outcome = "miss"
    THEN IF eaten_in_total >= ParamsOf(an, carn).F
         THEN [animals |-> an,
               log |-> Append(log, HuntEntry(an, carn, order[k], eaten_in_total,
                                             rands[order[k]], outcome))]
         ELSE HuntLoop(an, carn, order, k + 1, eaten_in_total, rands,
                       Append(log, HuntEntry(an, carn, order[k], eaten_in_total,
                                             rands[order[k]], outcome)))
    ELSE IF eaten_in_total + an[order[k]].weight >= ParamsOf(an, carn).F
    THEN [animals |-> Kill(an, carn, order[k], eaten_in_total, rands[order[k]]),
          log |-> Append(log, HuntEntry(an, carn, order[k], eaten_in_total,
                                        rands[order[k]], outcome))]
    ELSE HuntLoop(Kill(an, carn, order[k], eaten_in_total, rands[order[k]]),
                  carn, order, k + 1, eaten_in_total + an[order[k]].weight, rands,
                  Append(log, HuntEntry(an, carn, order[k], eaten_in_total,
                                        rands[order[k]], outcome)))

Hunt(an, carn, list_of_prey, rands) ==
    HuntLoop(an, carn, SortedByFitness(an, list_of_prey, FALSE), 1, 0, rands, << >>)

RECURSIVE CarnLoop(_, _, _, _, _, _)
RECURSIVE CarnNext(_, _, _, _, _, _)
\* feeding_carnivores from the k-th carnivore on; tape[carn] are its draws.
CarnLoop(an, carns, k, herbs, tape, log) ==
    IF k > Len(carns) THEN [animals |-> an, log |-> log]
    ELSE CarnNext(Hunt(an, carns[k], herbs, tape[carns[k]]), carns, k, herbs, tape, log)

\* The loop goes on from what the hunt of the k-th carnivore left.
CarnNext(h, carns, k, herbs, tape, log) ==
    CarnLoop(h.animals, carns, k + 1, herbs, tape, log \o h.log)

FeedingCarnivores(an, carns, herbs, tape) == CarnLoop(an, carns, 1, herbs, tape, << >>)

\* update_population if it kept every animal.
AliveKeepAll(an, list) == list

\* update_population: the list without the animals whose death flag is set.
Alive(an, list) == SelectSeqBy(list, {k \in DOMAIN list : ~an[list[k]].death_status})

\* update_animals_after_migration if it kept every animal.
AtPositionKeepAll(an, list, pos) == list

\* update_animals_after_migration: the animals whose position is the cell's.
AtPosition(an, list, pos) == SelectSeqBy(list, {k \in DOMAIN list : an[list[k]].position = pos})

\* procreation, the body of its loops for animal id once give_birth has
\* returned b: the baby, if any, joins the newborns, and the counter of the
\* cell goes up when the parent's given_birth is set.  st is the state the
\* loops work on: animals, hist, newborns (ids), total_animals of the cell,
\* next_id, whether give_birth raised, and the calls of give_birth made so
\* far (<< id, N >>).
BirthStep(st, id, b, abs_year, pos) ==
    [animals |-> IF IsNone(b.baby) THEN [st.animals EXCEPT ![id] = b.parent]
                 ELSE [st.animals EXCEPT ![id] = b.parent] @@ (st.next_id :> b.baby[1]),
     hist |-> IF IsNone(b.baby)
              THEN IF b.parent.given_birth
                   THEN [st.hist EXCEPT ![id].last_birth = Some(abs_year)]
                   ELSE st.hist
              ELSE [st.hist EXCEPT ![id].last_birth = Some(abs_year)]
                   @@ (st.next_id :> [born |-> Some(abs_year), born_pos |-> pos,
                                      last_birth |-> None]),
     newborns |-> IF IsNone(b.baby) THEN st.newborns
                  ELSE Append(st.newborns, st.next_id),
     total |-> IF b.parent.given_birth /\ ~b.raises THEN st.total + 1 ELSE st.total,
     next_id |-> IF IsNone(b.baby) THEN st.next_id ELSE st.next_id + 1,
     raises |-> b.raises,
     calls |-> st.calls]

\* procreation, the call animal.give_birth(animals_in_cell, year) for animal
\* id is made.
Called(st, id, animals_in_cell) ==
    [st EXCEPT !.calls = Append(@, << id, animals_in_cell >>)]

RECURSIVE BirthLoop(_, _, _, _, _, _, _, _)
\* procreation, its loops over the two lists (herbivores, then carnivores)
\* from the k-th animal on; N[species] is the 'number' taken before the
\* loops, draws[id] the numbers random.random() and random.normalvariate()
\* return for that animal.
BirthLoop(st, list, k, N, yr, abs_year, pos, draws) ==
    IF k > Len(list) \/ st.raises THEN st
    ELSE BirthLoop(
            BirthStep(Called(st, list[k], N[st.animals[list[k]].species]), list[k],
                      GiveBirth(ParamsOf(st.animals, list[k]), st.animals[list[k]],
                                N[st.animals[list[k]].species], yr,
                                draws[list[k]].rand, draws[list[k]].z),
                      abs_year, pos),
            list, k + 1, N, yr, abs_year, pos, draws)

\* The ids of list that are of the species.
OfSpecies(an, list, species) ==
    SelectSeqBy(list, {k \in DOMAIN list : an[list[k]].species = species})

\* procreation, after its loops: the newborns join the lists.  When
\* give_birth has raised, the newborns of this call never join a list: they
\* stay behind in the scratch list that the next call empties.
ProcreationEnd(st, lists) ==
    [animals |-> IF st.raises
                 THEN [i \in DOMAIN st.animals \ Range(st.newborns) |-> st.animals[i]]
                 ELSE st.animals,
     hist |-> IF st.raises
              THEN [i \in DOMAIN st.hist \ Range(st.newborns) |-> st.hist[i]]
              ELSE st.hist,
     total |-> st.total,
     next_id |-> st.next_id, raises |-> st.raises, calls |-> st.calls,
     lists |-> IF st.raises THEN lists
               ELSE [Herbivore |-> lists.Herbivore
                                   \o OfSpecies(st.animals, st.newborns, "Herbivore"),
                     Carnivore |-> lists.Carnivore
                                   \o OfSpecies(st.animals, st.newborns, "Carnivore")]]

\* procreation of one cell.
Procreation(an, hs, lists, tot, nid, yr, abs_year, pos, draws) ==
    ProcreationEnd(
        BirthLoop([animals |-> an, hist |-> hs, newborns |-> << >>,
                   total |-> tot, next_id |-> nid, raises |-> FALSE,
                   calls |-> << >>],
                  lists.Herbivore \o lists.Carnivore, 1,
                  [Herbivore |-> Len(lists.Herbivore),
                   Carnivore |-> Len(lists.Carnivore)],
                  yr, abs_year, pos, draws),
        lists)

RECURSIVE MigrateAnimals(_, _, _, _, _)
RECURSIVE MigrateChecked(_, _, _, _, _, _)
\* migrate_animals from the k-th animal of the cell on (herbivores first):
\* the animals after their checks and the candidates, in order.
MigrateAnimals(an, list, k, draws, candidates) ==
    IF k > Len(list) THEN [animals |-> an, candidates |-> candidates]
    ELSE MigrateChecked(an, list, k, draws, candidates,
             CheckIfAnimalMigrates(ParamsOf(an, list[k]), an[list[k]],
                                   draws[list[k]].rand))

\* The body of the loop if the animal kept none of what
\* check_if_animal_migrates did to it.
MigrateCheckedFlagLost(an, list, k, draws, candidates, c) ==
    MigrateAnimals(an, list, k + 1, draws,
        IF c.result
        THEN Append(candidates,
                    [current |-> c.animal.position,
                     potential |-> ChooseMigrationMove(c.animal, draws[list[k]].move),
                     animal |-> list[k],
                     species |-> c.animal.species])
        ELSE candidates)

\* The body of the loop once check_if_animal_migrates has returned c.
MigrateChecked(an, list, k, draws, candidates, c) ==
    MigrateAnimals([an EXCEPT ![list[k]] = c.animal], list, k + 1, draws,
        IF c.result
        THEN Append(candidates,
                    [current |-> c.animal.position,
                     potential |-> ChooseMigrationMove(c.animal, draws[list[k]].move),
                     animal |-> list[k],
                     species |-> c.animal.species])
        ELSE candidates)

RECURSIVE MoveLoop(_, _, _, _, _, _)
\* migrate_to_new_cell, the loop over the candidates of the cell at pos.
MoveLoop(cands, k, an, ca, tot, pos) ==
    IF k > Len(cands) THEN [animals |-> an, cell_animals |-> ca, total_animals |-> tot]
    ELSE LET c == cands[k]
         IN  IF c.potential \in Range(NeighborCells(c.current))
             THEN MoveLoop(cands, k + 1,
                           [an EXCEPT ![c.animal] = UpdatePosition(@, c.potential)],
                           [ca EXCEPT ![c.potential][c.species] = Append(@, c.animal)],
                           [tot EXCEPT ![c.potential] = @ + 1, ![pos] = @ - 1],
                           pos)
             ELSE MoveLoop(cands, k + 1, an, ca, tot, pos)

RECURSIVE DeathLoop(_, _, _, _, _)
RECURSIVE DeathChecked(_, _, _, _, _, _)
\* death from the k-th animal of the cell on: the animals and the counter.
DeathLoop(an, list, k, total, rands) ==
    IF k > Len(list) THEN [animals |-> an, total |-> total]
    ELSE DeathChecked(an, list, k, total, rands,
             UpdateDeathStatus(ParamsOf(an, list[k]), an[list[k]], FALSE,
                               rands[list[k]]))

\* The body of the loop once update_death_status has left the animal as a.
DeathChecked(an, list, k, total, rands, a) ==
    DeathLoop([an EXCEPT ![list[k]] = a], list, k + 1,
              IF a.death_status THEN total - 1 ELSE total, rands)

\* migrate_to_new_cell if it gave the candidates their new position without
\* adding them to the cell they move to.
MoveCandidatesNoAdd(m, ca, tot, pos) ==
    [animals |-> [i \in DOMAIN m.animals |->
                     IF \E k \in DOMAIN m.candidates :
                           /\ m.candidates[k].animal = i
                           /\ m.candidates[k].potential
                                 \in Range(NeighborCells(m.candidates[k].current))
                     THEN UpdatePosition(m.animals[i],
                              (CHOOSE c \in Range(m.candidates) : c.animal = i).potential)
                     ELSE m.animals[i]],
     cell_animals |-> ca,
     total_animals |-> tot]

\* migrate_to_new_cell of the cell at pos: the candidates of migrate_animals
\* are moved.
MoveCandidates(m, ca, tot, pos) ==
    MoveLoop(m.candidates, 1, m.animals, ca, tot, pos)

\* ---------------------------------------------------------------- inputs

Herb(age, weight) == [species |-> "Herbivore", age |-> age, weight |-> weight]
Carn(age, weight) == [species |-> "Carnivore", age |-> age, weight |-> weight]

\* ini_pop: two herbivores heavy enough to breed in the lowland cell; a light
\* herbivore with a heavy carnivore; two herbivores in the desert cell; two
\* herbivores and a carnivore of the age and weight of one of them in the
\* desert cell; a population put on a water cell (neither Island nor
\* add_population looks at the land type of 'loc').
InitialPops ==
    { << [loc |-> << 2, 2 >>, pop |-> << Herb(5, 400), Herb(5, 400) >>] >>,
      << [loc |-> << 2, 2 >>, pop |-> << Herb(5, 20), Carn(5, 400) >>] >>,
      << [loc |-> << 2, 3 >>, pop |-> << Herb(5, 80), Herb(5, 70) >>] >>,
      << [loc |-> << 2, 3 >>, pop |-> << Herb(5, 200), Herb(5, 80), Carn(5, 200) >>] >>,
      << [loc |-> << 2, 2 >>, pop |-> << Carn(5, 200) >>],
         [loc |-> << 1, 1 >>, pop |-> << Herb(5, 200) >>] >> }

\* The populations add_population is called with: a carnivore for the
\* desert cell; a herbivore for a water cell; the carnivore followed by a
\* herbivore for a location that is no cell of the map; the carnivore
\* followed by one of negative age; an animal of weight 0; one of an unknown
\* species; one whose location has a single entry.
AddedPops ==
    { << [loc |-> << 2, 3 >>, pop |-> << Carn(3, 150) >>] >>,
      << [loc |-> << 1, 2 >>, pop |-> << Herb(2, 100) >>] >>,
      << [loc |-> << 2, 3 >>, pop |-> << Carn(3, 150) >>],
         [loc |-> << 9, 9 >>, pop |-> << Herb(2, 100) >>] >>,
      << [loc |-> << 2, 3 >>, pop |-> << Carn(3, 150), Carn(0 - 1, 150) >>] >>,
      << [loc |-> << 2, 2 >>, pop |-> << Herb(2, 0) >>] >>,
      << [loc |-> << 2, 2 >>, pop |-> << [species |-> "Omnivore", age |-> 2,
                                          weight |-> 100] >>] >>,
      << [loc |-> << 2 >>, pop |-> << Herb(2, 100) >>] >> }

\* --------------------------------------------------------------- year_loop

\* year_loop if procreation came before the compaction of the herbivores.
PhaseStepsBirthFirst ==
    << << "sort", "reset", "feed_herb", "feed_carn", "procreate", "compact_herb" >>,
       << "migrate", "after_migration" >>,
       << "aging", "weight_loss", "death", "compact" >> >>

\* The calls year_loop makes on a cell in each of its three loops.
PhaseSteps ==
    << << "sort", "reset", "feed_herb", "feed_carn", "compact_herb", "procreate" >>,
       << "migrate", "after_migration" >>,
       << "aging", "weight_loss", "death", "compact" >> >>

AtRest == [phase |-> 0, idx |-> 0, step |-> 0]

StepName(a) == PhaseSteps[a.phase][a.step]

\* The number of the step among the twelve calls made on a cell in a year.
StepNumber(a) ==
    IF a.phase = 1 THEN a.step
    ELSE IF a.phase = 2 THEN Len(PhaseSteps[1]) + a.step
    ELSE Len(PhaseSteps[1]) + Len(PhaseSteps[2]) + a.step

\* The next cell after index idx that passes `if land_type.legal_land_type`
\* (0 when there is none).
NextLegal(idx) ==
    LET later == {k \in DOMAIN CellOrder : k > idx /\ LegalCell(CellOrder[k])}
    IN  IF later = {} THEN 0 ELSE CHOOSE k \in later : \A j \in later : k <= j

\* year_loop if it were one loop that makes all twelve calls on a cell.
YearLoopNextPerCell(a) ==
    IF a.step < Len(PhaseSteps[a.phase]) THEN Some([a EXCEPT !.step = a.step + 1])
    ELSE IF a.phase < Len(PhaseSteps)
    THEN Some([phase |-> a.phase + 1, idx |-> a.idx, step |-> 1])
    ELSE IF NextLegal(a.idx) # 0
    THEN Some([phase |-> 1, idx |-> NextLegal(a.idx), step |-> 1])
    ELSE None

\* year_loop: where it stands after the step at a; None when it returns.
YearLoopNext(a) ==
    IF a.step < Len(PhaseSteps[a.phase]) THEN Some([a EXCEPT !.step = a.step + 1])
    ELSE IF NextLegal(a.idx) # 0
    THEN Some([phase |-> a.phase, idx |-> NextLegal(a.idx), step |-> 1])
    ELSE IF a.phase < Len(PhaseSteps)
    THEN Some([phase |-> a.phase + 1, idx |-> NextLegal(0), step |-> 1])
    ELSE None

YearLoopFirst ==
    IF NextLegal(0) # 0 THEN Some([phase |-> 1, idx |-> NextLegal(0), step |-> 1])
    ELSE None

Here == CellOrder[at.idx]

InStep(name) == pc = "cells" /\ StepName(at) = name

\* The step at `at` is done: year_loop moves on.
Finish ==
    /\ done' = [done EXCEPT ![Here] = StepNumber(at)]
    /\ IF IsNone(YearLoopNext(at))
       THEN pc' = "year_end" /\ at' = AtRest
       ELSE pc' = "cells" /\ at' = YearLoopNext(at)[1]

Restrict(f, S) == [i \in S |-> f[i]]

\* ------------------------------------------------------------------ Init

\* Island._add_initial_population has left the island as r.
Populated(r) ==
    /\ ~r.raises
    /\ animals = r.animals
    /\ hist = r.hist
    /\ cell_animals = r.cell_animals
    /\ total_animals = r.total_animals
    /\ next_id = r.next_id

\* BioSim.__init__ past random.seed(seed): Island builds the map and adds
\* the initial population.
Constructed(ini_pop) ==
    /\ ~StoreRaises(ini_pop)
    /\ Populated(AddLoop(Flatten(ini_pop, 1, 1), 1, << >>, << >>,
                 [pos \in Coords |-> [Herbivore |-> << >>, Carnivore |-> << >>]],
                 [pos \in Coords |-> 0], 1))
    /\ available_food = [pos \in Coords |-> CompleteMap[pos].f_max]
    /\ sim_year = 0
    /\ year = 0
    /\ num_years = 0
    /\ pc = "idle"
    /\ at = AtRest
    /\ adds = 0
    /\ done = [pos \in Coords |-> 0]
    /\ hunt_log = << >>
    /\ island_map = JoinLines(IslandMap)
    /\ built = BuildIsland(JoinLines(IslandMap)).raises
    /\ complete_map = BuildIsland(JoinLines(IslandMap)).complete_map
    /\ total_animals_species = [species \in Species |-> 0]
    /\ island_total = 0
    /\ last_update = None
    /\ neighbors = None
    /\ before_migration = [species \in Species |-> 0]
    /\ year_start = << >>
    /\ moves = << >>

\* One simulation is built; the stream is left out: any value can be drawn.
Init ==
    /\ params \in ParamSets
    /\ \E ini_pop \in InitialPops : Constructed(ini_pop)
    /\ Unseeded

\* --------------------------------------------------------------- actions

\* BioSim.simulate(n): the loop over range(n) starts at year 0.
Simulate(n) ==
    /\ pc = "idle"
    /\ sim_year + n <= MaxYears
    /\ num_years' = n
    /\ year' = 0
    /\ pc' = "loop"
    /\ UNCHANGED << map_vars, count_vars, last_update, neighbors, year_vars, seed_vars >>
    /\ UNCHANGED << adds, params, animals, next_id, cell_animals, available_food,
                   total_animals, sim_year, at, hist, done, hunt_log >>

\* get_total_animals has returned r.
Counted(r) ==
    /\ total_animals_species' = r.species
    /\ island_total' = r.total

\* One pass of the loop of simulate up to its call of year_loop(year): it
\* reads num_animals_per_species twice, each a call of get_total_animals.
BeginYear ==
    /\ pc = "loop"
    /\ Counted(GetTotalAnimals(
                   GetTotalAnimals(total_animals_species, cell_animals).species,
                   cell_animals))
    /\ IF IsNone(YearLoopFirst)
       THEN pc' = "year_end" /\ at' = AtRest
       ELSE pc' = "cells" /\ at' = YearLoopFirst[1]
    /\ done' = [pos \in Coords |-> 0]
    /\ hunt_log' = << >>
    /\ year_start' = [i \in DOMAIN animals |->
                         [age |-> animals[i].age, position |-> animals[i].position]]
    /\ moves' = [i \in DOMAIN animals |-> 0]
    /\ UNCHANGED << map_vars, last_update, neighbors, before_migration, seed_vars >>
    /\ UNCHANGED << adds, params, animals, next_id, cell_animals, available_food,
                   total_animals, sim_year, year, num_years, hist >>

\* year_loop has returned: self._year += 1, and the loop goes on or ends.
\* The total population the year has left is recorded.
EndYear ==
    /\ pc = "year_end"
    /\ sim_year' = sim_year + 1
    /\ IF year + 1 < num_years
       THEN pc' = "loop" /\ year' = year + 1 /\ num_years' = num_years
       ELSE pc' = "idle" /\ year' = 0 /\ num_years' = 0
    /\ trajectory' = Append(trajectory,
                            TotalOf(CountCells(cell_animals, 1,
                                               [species \in Species |-> 0])).total)
    /\ UNCHANGED << stream, stream_pos, sims_built, running, first_trajectory,
                   initial_pop, run_from >>
    /\ UNCHANGED << map_vars, count_vars, last_update, neighbors, year_vars >>
    /\ UNCHANGED << adds, params, animals, next_id, cell_animals, available_food,
                   total_animals, at, hist, done, hunt_log >>

\* BioSim.add_population has left the island as r.
Added(r) ==
    /\ r.next_id <= MaxAnimals + 1
    /\ animals' = r.animals
    /\ hist' = r.hist
    /\ cell_animals' = r.cell_animals
    /\ total_animals' = r.total_animals
    /\ next_id' = r.next_id

\* BioSim.add_population between two simulate calls; an exception it ends
\* with goes to the caller, who goes on with the simulation as it is.
AddPopulation(population) ==
    /\ pc = "idle"
    /\ adds < MaxAdds
    /\ adds' = adds + 1
    /\ Added(AddPopulationTo(population, animals, hist, cell_animals,
                             total_animals, next_id))
    /\ UNCHANGED << map_vars, count_vars, last_update, neighbors, year_vars, seed_vars >>
    /\ UNCHANGED << params, available_food, sim_year, year, num_years, pc, at,
                   done, hunt_log >>

\* Landscape.update_animal_sorting
UpdateAnimalSorting ==
    /\ InStep("sort")
    /\ \E shuffled \in Shuffles(cell_animals[Here].Carnivore) :
          cell_animals' = [cell_animals EXCEPT ![Here] =
              [Herbivore |-> SortedByFitness(animals, @.Herbivore, TRUE),
               Carnivore |-> shuffled]]
    /\ Finish
    /\ UNCHANGED << map_vars, count_vars, last_update, neighbors, year_vars, seed_vars >>
    /\ UNCHANGED << adds, params, animals, next_id, available_food, total_animals,
                   sim_year, year, num_years, hist, hunt_log >>

\* self.f_max of the cell at pos: the class attribute of its land type as
\* set_landscape_parameters has left it.
FMax(pos) ==
    IF IslandMap[pos[1]][pos[2]] = "L" THEN params.Lowland.f_max
    ELSE CompleteMap[pos].f_max

\* Landscape.yearly_updates
YearlyUpdatesStep ==
    /\ InStep("reset")
    /\ available_food' = [available_food EXCEPT ![Here] = FMax(Here)]
    /\ animals' = YearlyUpdates(animals, Range(CellList(cell_animals, Here)))
    /\ Finish
    /\ UNCHANGED << map_vars, count_vars, last_update, neighbors, year_vars, seed_vars >>
    /\ UNCHANGED << adds, params, next_id, cell_animals, total_animals, sim_year, year,
                   num_years, hist, hunt_log >>

\* feeding_herbivores has left the animals and the fodder of the cell as r.
Fed(r) ==
    /\ animals' = r.animals
    /\ available_food' = [available_food EXCEPT ![Here] = r.available_food]

\* Landscape.feeding_herbivores
FeedingHerbivoresStep ==
    /\ InStep("feed_herb")
    /\ Fed(FeedingHerbivores(animals, cell_animals[Here].Herbivore,
                             available_food[Here]))
    /\ Finish
    /\ UNCHANGED << map_vars, count_vars, last_update, neighbors, year_vars, seed_vars >>
    /\ UNCHANGED << adds, params, next_id, cell_animals, total_animals, sim_year, year,
                   num_years, hist, hunt_log >>

\* feeding_carnivores has left the animals as r.animals.
Hunted(r) ==
    /\ animals' = r.animals
    /\ hunt_log' = r.log

\* Landscape.feeding_carnivores
FeedingCarnivoresStep ==
    /\ InStep("feed_carn")
    /\ \E tape \in [Range(cell_animals[Here].Carnivore) ->
                       [Range(cell_animals[Here].Herbivore) -> RandDraws]] :
          Hunted(FeedingCarnivores(animals, cell_animals[Here].Carnivore,
                                   cell_animals[Here].Herbivore, tape))
    /\ Finish
    /\ UNCHANGED << map_vars, count_vars, last_update, neighbors, year_vars, seed_vars >>
    /\ UNCHANGED << adds, params, next_id, cell_animals, available_food, total_animals,
                   sim_year, year, num_years, hist >>

\* The objects the lists of the cell no longer refer to are gone.
Forget(an, gone) == Restrict(an, DOMAIN an \ gone)

\* Landscape.update_population(herb_only=True)
UpdatePopulationHerbStep ==
    /\ InStep("compact_herb")
    /\ cell_animals' = [cell_animals EXCEPT ![Here].Herbivore = Alive(animals, @)]
    /\ animals' = Forget(animals, Range(cell_animals[Here].Herbivore)
                                     \ Range(Alive(animals, cell_animals[Here].Herbivore)))
    /\ hist' = Forget(hist, Range(cell_animals[Here].Herbivore)
                               \ Range(Alive(animals, cell_animals[Here].Herbivore)))
    /\ Finish
    /\ UNCHANGED << map_vars, count_vars, last_update, neighbors, year_vars, seed_vars >>
    /\ UNCHANGED << adds, params, next_id, available_food, total_animals, sim_year, year,
                   num_years, hunt_log >>

\* procreation has left the cell as r; a ValueError of a newborn's
\* constructor ends the simulation.
Procreated(r) ==
    /\ r.next_id <= MaxAnimals + 1
    /\ animals' = r.animals
    /\ hist' = r.hist
    /\ cell_animals' = [cell_animals EXCEPT ![Here] = r.lists]
    /\ total_animals' = [total_animals EXCEPT ![Here] = r.total]
    /\ next_id' = r.next_id
    /\ IF r.raises
       THEN pc' = "raised" /\ at' = at /\ done' = done
       ELSE Finish

\* Landscape.procreation(year) with the numbers drawn for each resident.
ProcreationWith(draws) ==
    /\ Procreated(Procreation(animals, hist, cell_animals[Here],
                              total_animals[Here], next_id, year, sim_year,
                              Here, draws))
    /\ UNCHANGED << map_vars, count_vars, last_update, neighbors, year_vars >>
    /\ UNCHANGED << adds, params, available_food, sim_year, year, num_years, hunt_log >>

\* Landscape.procreation(year), whatever numbers are drawn.
ProcreationStep ==
    /\ InStep("procreate")
    /\ \E draws \in [Range(CellList(cell_animals, Here)) -> [rand : RandDraws, z : ZDraws]] :
          ProcreationWith(draws)
    /\ UNCHANGED seed_vars

\* migrate_to_new_cell has left the island as r.
Moved(r) ==
    /\ animals' = r.animals
    /\ cell_animals' = r.cell_animals
    /\ total_animals' = r.total_animals
    /\ moves' = [i \in DOMAIN r.animals |->
                    (IF i \in DOMAIN moves THEN moves[i] ELSE 0)
                    + (IF r.animals[i].position # animals[i].position THEN 1 ELSE 0)]

\* Island.migrate_to_new_cell(land_type) with the numbers and moves drawn for
\* each resident; on the first cell of the loop the counts of the island are
\* recorded.
MigrateToNewCellWith(draws) ==
    /\ Moved(MoveCandidates(
                 MigrateAnimals(animals, CellList(cell_animals, Here), 1, draws,
                                << >>),
                 cell_animals, total_animals, Here))
    /\ before_migration' =
          IF at.idx = NextLegal(0)
          THEN CountCells(cell_animals, 1, [species \in Species |-> 0])
          ELSE before_migration
    /\ Finish
    /\ UNCHANGED << map_vars, count_vars, last_update, neighbors, year_start >>
    /\ UNCHANGED << adds, params, next_id, available_food, sim_year, year, num_years,
                   hist, hunt_log >>

\* Island.migrate_to_new_cell(land_type), whatever is drawn.
MigrateToNewCell ==
    /\ InStep("migrate")
    /\ \E draws \in [Range(CellList(cell_animals, Here)) ->
                        [rand : RandDraws, move : MigrationMoves]] :
          MigrateToNewCellWith(draws)
    /\ UNCHANGED seed_vars

\* Landscape.update_animals_after_migration
UpdateAnimalsAfterMigration ==
    /\ InStep("after_migration")
    /\ cell_animals' = [cell_animals EXCEPT ![Here] =
          [Herbivore |-> AtPosition(animals, @.Herbivore, Here),
           Carnivore |-> AtPosition(animals, @.Carnivore, Here)]]
    /\ Finish
    /\ UNCHANGED << map_vars, count_vars, last_update, neighbors, year_vars, seed_vars >>
    /\ UNCHANGED << adds, params, animals, next_id, available_food, total_animals,
                   sim_year, year, num_years, hist, hunt_log >>

\* Landscape.aging
Aging ==
    /\ InStep("aging")
    /\ animals' = [i \in DOMAIN animals |->
          IF i \in Range(CellList(cell_animals, Here))
          THEN AgeIncrease(ParamsOf(animals, i), animals[i]) ELSE animals[i]]
    /\ Finish
    /\ UNCHANGED << map_vars, count_vars, last_update, neighbors, year_vars, seed_vars >>
    /\ UNCHANGED << adds, params, next_id, cell_animals, available_food, total_animals,
                   sim_year, year, num_years, hist, hunt_log >>

\* Landscape.loss_of_weight
LossOfWeight ==
    /\ InStep("weight_loss")
    /\ animals' = [i \in DOMAIN animals |->
          IF i \in Range(CellList(cell_animals, Here))
          THEN YearlyWeightUpdate(ParamsOf(animals, i), animals[i]) ELSE animals[i]]
    /\ Finish
    /\ UNCHANGED << map_vars, count_vars, last_update, neighbors, year_vars, seed_vars >>
    /\ UNCHANGED << adds, params, next_id, cell_animals, available_food, total_animals,
                   sim_year, year, num_years, hist, hunt_log >>

\* death has left the animals and the counter of the cell as r.
Died(r) ==
    /\ animals' = r.animals
    /\ total_animals' = [total_animals EXCEPT ![Here] = r.total]

\* Landscape.death with the number drawn for each resident.
DeathWith(rands) ==
    /\ Died(DeathLoop(animals, CellList(cell_animals, Here), 1,
                      total_animals[Here], rands))
    /\ Finish
    /\ UNCHANGED << map_vars, count_vars, last_update, neighbors, year_vars >>
    /\ UNCHANGED << adds, params, next_id, cell_animals, available_food, sim_year, year,
                   num_years, hist, hunt_log >>

\* Landscape.death, whatever numbers are drawn.
Death ==
    /\ InStep("death")
    /\ \E rands \in [Range(CellList(cell_animals, Here)) -> RandDraws] : DeathWith(rands)
    /\ UNCHANGED seed_vars

\* Landscape.update_population()
UpdatePopulationStep ==
    /\ InStep("compact")
    /\ cell_animals' = [cell_animals EXCEPT ![Here] =
          [Herbivore |-> Alive(animals, @.Herbivore),
           Carnivore |-> Alive(animals, @.Carnivore)]]
    /\ animals' = Forget(animals, Range(CellList(cell_animals, Here))
                                     \ Range(Alive(animals, CellList(cell_animals, Here))))
    /\ hist' = Forget(hist, Range(CellList(cell_animals, Here))
                               \ Range(Alive(animals, CellList(cell_animals, Here))))
    /\ Finish
    /\ UNCHANGED << map_vars, count_vars, last_update, neighbors, year_vars, seed_vars >>
    /\ UNCHANGED << adds, params, next_id, available_food, total_animals, sim_year, year,
                   num_years, hunt_log >>

\* BioSim.num_animals or num_animals_per_species, read between two simulate
\* calls or after a simulate call that ended with an exception.
NumAnimals ==
    /\ pc \in {"idle", "raised"}
    /\ Counted(GetTotalAnimals(total_animals_species, cell_animals))
    /\ UNCHANGED << map_vars, last_update, neighbors, year_vars, seed_vars >>
    /\ UNCHANGED << adds, params, animals, next_id, cell_animals, available_food,
                   total_animals, sim_year, year, num_years, pc, at, hist, done,
                   hunt_log >>

Next ==
    \/ \E n \in 1..MaxYears : Simulate(n)
    \/ BeginYear
    \/ EndYear
    \/ \E population \in AddedPops : AddPopulation(population)
    \/ UpdateAnimalSorting
    \/ YearlyUpdatesStep
    \/ FeedingHerbivoresStep
    \/ FeedingCarnivoresStep
    \/ UpdatePopulationHerbStep
    \/ ProcreationStep
    \/ MigrateToNewCell
    \/ UpdateAnimalsAfterMigration
    \/ Aging
    \/ LossOfWeight
    \/ Death
    \/ UpdatePopulationStep
    \/ NumAnimals

Spec == Init /\ [][Next]_vars

\* ------------------------------------------- two simulations and one seed

\* The years each of the two simulations is run for.
SeedYears == 1

\* The values a position of the stream can hold.  What the generator gives
\* at a position is fixed by the seed; it becomes known when the position is
\* read for the first time.
RawDraws == {0, 1}

\* random.random() on the value at hand.
AsRandom(u) == IF u = 0 THEN 0 ELSE FitOne - 1

\* random.normalvariate(w_birth, sigma_birth) on the value at hand: the z of
\* w_birth + z * sigma_birth.
AsNormal(u) == IF u = 0 THEN 0 - 1 ELSE 1

\* random.shuffle(self._migration_moves) on the values at hand: the move that
\* comes first.
AsMove(u) == IF u = 0 THEN "Right" ELSE "Left"

\* The value of stream t at position k.
Read(t, k) == IF k \in DOMAIN t THEN t[k] ELSE 0

\* The values the stream can turn out to hold past the positions read so far.
Extensions == UNION {[1..n -> RawDraws] : n \in 0..(2 * MaxAnimals)}

\* The stream with ext past the positions known is known up to position
\* last and no further.
ReadUpTo(ext, last) ==
    Len(stream \o ext) = (IF Len(stream) >= last THEN Len(stream) ELSE last)

\* Where id stands in the list.
PlaceIn(list, id) == CHOOSE k \in DOMAIN list : list[k] = id

\* procreation on stream t from position q: each resident draws
\* random.random() and then the birth weight.
BirthDrawsFrom(t, q, list) ==
    [i \in Range(list) |->
        [rand |-> AsRandom(Read(t, q + 2 * PlaceIn(list, i) - 1)),
         z |-> AsNormal(Read(t, q + 2 * PlaceIn(list, i)))]]

RECURSIVE MigrationDrawsFrom(_, _, _, _, _)
\* migrate_animals on stream t from position q, for the k-th resident on:
\* an animal whose migration_status is not set draws random.random() and, if
\* it is to migrate, shuffles its moves.  Returns what each resident has
\* drawn and the position reached.
MigrationDrawsFrom(t, q, list, k, draws) ==
    IF k > Len(list) THEN [draws |-> draws, pos |-> q]
    ELSE IF animals[list[k]].migration_status
    THEN MigrationDrawsFrom(t, q, list, k + 1,
                            draws @@ (list[k] :> [rand |-> 0, move |-> "Up"]))
    ELSE IF CheckIfAnimalMigrates(ParamsOf(animals, list[k]), animals[list[k]],
                                  AsRandom(Read(t, q + 1))).result
    THEN MigrationDrawsFrom(t, q + 2, list, k + 1,
                            draws @@ (list[k] :> [rand |-> AsRandom(Read(t, q + 1)),
                                                  move |-> AsMove(Read(t, q + 2))]))
    ELSE MigrationDrawsFrom(t, q + 1, list, k + 1,
                            draws @@ (list[k] :> [rand |-> AsRandom(Read(t, q + 1)),
                                                  move |-> "Up"]))

RECURSIVE DeathDrawsFrom(_, _, _, _, _)
\* death on stream t from position q, for the k-th resident on: an animal
\* whose death flag is not set draws random.random().
DeathDrawsFrom(t, q, list, k, rands) ==
    IF k > Len(list) THEN [draws |-> rands, pos |-> q]
    ELSE IF animals[list[k]].death_status
    THEN DeathDrawsFrom(t, q, list, k + 1, rands @@ (list[k] :> 0))
    ELSE DeathDrawsFrom(t, q + 1, list, k + 1,
                        rands @@ (list[k] :> AsRandom(Read(t, q + 1))))

\* The initial populations of the two simulations: herbivores only, so that
\* neither the shuffle of the carnivores nor a hunt draws a value.
SeedPops ==
    { << [loc |-> << 2, 2 >>, pop |-> << Herb(5, 400) >>] >>,
      << [loc |-> << 2, 3 >>, pop |-> << Herb(5, 200) >>] >> }

\* BioSim(island_map, ini_pop, seed): random.seed(seed) and the construction.
InitSeed ==
    /\ params = DefaultParams
    /\ \E ini_pop \in SeedPops : Constructed(ini_pop) /\ initial_pop = ini_pop
    /\ stream = << >>
    /\ stream_pos = 0
    /\ sims_built = 1
    /\ running = 1
    /\ trajectory = << >>
    /\ first_trajectory = None
    /\ run_from = 0

\* The values drawn have moved the stream to position q, the stream being t.
Drawn(t, q) ==
    /\ stream' = t
    /\ stream_pos' = q
    /\ UNCHANGED << sims_built, running, trajectory, first_trajectory, initial_pop,
                   run_from >>

\* Landscape.procreation(year), its numbers drawn from the stream.
SeededProcreation ==
    /\ InStep("procreate")
    /\ \E ext \in Extensions :
          /\ ReadUpTo(ext, stream_pos + 2 * Len(CellList(cell_animals, Here)))
          /\ ProcreationWith(BirthDrawsFrom(stream \o ext, stream_pos,
                                            CellList(cell_animals, Here)))
          /\ Drawn(stream \o ext, stream_pos + 2 * Len(CellList(cell_animals, Here)))

\* migrate_to_new_cell with the draws m made on stream t.
MigratedOn(t, ext, m) ==
    /\ ReadUpTo(ext, m.pos)
    /\ MigrateToNewCellWith(m.draws)
    /\ Drawn(t, m.pos)

\* Island.migrate_to_new_cell(land_type), its numbers drawn from the stream.
SeededMigration ==
    /\ InStep("migrate")
    /\ \E ext \in Extensions :
          MigratedOn(stream \o ext, ext,
                     MigrationDrawsFrom(stream \o ext, stream_pos,
                                        CellList(cell_animals, Here), 1, << >>))

\* death with the draws m made on stream t.
DiedOn(t, ext, m) ==
    /\ ReadUpTo(ext, m.pos)
    /\ DeathWith(m.draws)
    /\ Drawn(t, m.pos)

\* Landscape.death, its numbers drawn from the stream.
SeededDeath ==
    /\ InStep("death")
    /\ \E ext \in Extensions :
          DiedOn(stream \o ext, ext,
                 DeathDrawsFrom(stream \o ext, stream_pos,
                                CellList(cell_animals, Here), 1, << >>))

\* The state of the simulation at hand, the class attributes apart.
sim_vars == << animals, next_id, cell_animals, available_food, total_animals,
               sim_year, year, num_years, pc, at, adds, hist, done, hunt_log,
               island_map, complete_map, built, total_animals_species, island_total,
               last_update, neighbors, before_migration, year_start, moves >>

\* A second BioSim(island_map, ini_pop, seed) with the arguments of the first
\* is built, before the first is run or after: random.seed(seed) takes the
\* stream of the random module, which the two share, back to its start.  The
\* construction draws nothing.
BuildSecond ==
    /\ pc = "idle"
    /\ running = 1
    /\ sims_built = 1
    /\ sims_built' = 2
    /\ stream_pos' = 0
    /\ UNCHANGED << stream, running, trajectory, first_trajectory, initial_pop, run_from >>
    /\ UNCHANGED << params, sim_vars >>

\* The simulation at hand is one as its construction has left it, with r
\* what _add_initial_population has made of the island.
FreshlyBuilt(r) ==
    /\ animals' = r.animals
    /\ hist' = r.hist
    /\ cell_animals' = r.cell_animals
    /\ total_animals' = r.total_animals
    /\ next_id' = r.next_id
    /\ available_food' = [pos \in Coords |-> CompleteMap[pos].f_max]
    /\ sim_year' = 0
    /\ year' = 0
    /\ num_years' = 0
    /\ pc' = "idle"
    /\ at' = AtRest
    /\ adds' = 0
    /\ done' = [pos \in Coords |-> 0]
    /\ hunt_log' = << >>
    /\ total_animals_species' = [species \in Species |-> 0]
    /\ island_total' = 0
    /\ before_migration' = [species \in Species |-> 0]
    /\ year_start' = << >>
    /\ moves' = << >>
    /\ UNCHANGED << map_vars, last_update, neighbors >>

\* The first simulation has returned from simulate and the second, as its
\* construction has left it, is the one to be run.
TurnToSecond ==
    /\ pc = "idle"
    /\ running = 1
    /\ sims_built = 2
    /\ sim_year = SeedYears
    /\ running' = 2
    /\ first_trajectory' = Some(trajectory)
    /\ trajectory' = << >>
    /\ run_from' = stream_pos
    /\ UNCHANGED << params, initial_pop, stream, stream_pos, sims_built >>
    /\ FreshlyBuilt(AddLoop(Flatten(initial_pop, 1, 1), 1, << >>, << >>,
                            [pos \in Coords |-> [Herbivore |-> << >>, Carnivore |-> << >>]],
                            [pos \in Coords |-> 0], 1))

NextSeed ==
    \/ sim_year = 0 /\ Simulate(SeedYears)
    \/ BeginYear
    \/ EndYear
    \/ UpdateAnimalSorting
    \/ YearlyUpdatesStep
    \/ FeedingHerbivoresStep
    \/ FeedingCarnivoresStep
    \/ UpdatePopulationHerbStep
    \/ SeededProcreation
    \/ SeededMigration
    \/ UpdateAnimalsAfterMigration
    \/ Aging
    \/ LossOfWeight
    \/ SeededDeath
    \/ UpdatePopulationStep
    \/ BuildSecond
    \/ TurnToSecond

SpecSeed == InitSeed /\ [][NextSeed]_vars

\* ------------------------------------------------- building an island alone

\* The letters of the map strings tried: water, lowland and a letter that is
\* no landscape.
MapLetters == {"W", "L", "Q"}

\* The lines of the map strings tried, the empty line among them.
MapLines == UNION {[1..n -> MapLetters] : n \in 0..MaxCols}

\* The map strings tried, the empty string among them; a string whose last
\* line is empty ends with a newline.
MapStrings == {JoinLines(lines) : lines \in UNION {[1..n -> MapLines] : n \in 0..MaxRows}}

\* Island.__init__ up to its call of build_island: complete_map = {} and
\* nothing else of the simulation exists yet.
InitBuild ==
    /\ island_map \in MapStrings
    /\ complete_map = << >>
    /\ built = "new"
    /\ params = DefaultParams
    /\ animals = << >>
    /\ hist = << >>
    /\ next_id = 1
    /\ cell_animals = << >>
    /\ available_food = << >>
    /\ total_animals = << >>
    /\ sim_year = 0
    /\ year = 0
    /\ num_years = 0
    /\ pc = "new"
    /\ at = AtRest
    /\ adds = 0
    /\ done = << >>
    /\ hunt_log = << >>
    /\ total_animals_species = [species \in Species |-> 0]
    /\ island_total = 0
    /\ last_update = None
    /\ neighbors = None
    /\ Unseeded
    /\ before_migration = [species \in Species |-> 0]
    /\ year_start = << >>
    /\ moves = << >>

\* build_island has ended as r.
Built(r) ==
    /\ built' = r.raises
    /\ complete_map' = r.complete_map

\* Island.build_island
BuildIslandStep ==
    /\ built = "new"
    /\ Built(BuildIsland(island_map))
    /\ UNCHANGED << island_map, count_vars, last_update, neighbors, year_vars, seed_vars >>
    /\ UNCHANGED << adds, params, animals, next_id, cell_animals, available_food,
                   total_animals, sim_year, year, num_years, pc, at, hist, done,
                   hunt_log >>

NextBuild == BuildIslandStep

SpecBuild == InitBuild /\ [][NextBuild]_vars

\* ------------------------------------------- setting the species parameters

\* The names of the entries tried: three parameters, the species and a name
\* that is no attribute.
UpdateNames == {"eta", "DeltaPhiMax", "w_birth", "species", "etta"}

\* The values tried (eta and DeltaPhiMax in thousandths, w_birth in tenths):
\* a negative one, zero, one within every limit and one above 1.
UpdateValues == {0 - 1, 0, 500, 2000}

UpdateItems ==
    {<< name, value >> : name \in UpdateNames \ {"species"}, value \in UpdateValues}
        \cup {<< "species", "Carnivore" >>}

\* The dicts tried: their items in insertion order, every key once.
UpdateDicts ==
    {items \in UNION {[1..n -> UpdateItems] : n \in 0..MaxEntries} :
        \A i, j \in DOMAIN items : i # j => items[i][1] # items[j][1]}

\* The species names tried, one of them no species of the island.
UpdateSpecies == Species \cup {"Omnivore"}

\* set_animal_parameters has ended as r.
ParametersSet(species, items, r) ==
    /\ params' = r.params
    /\ last_update' = Some([species |-> species, items |-> items, before |-> params,
                            raises |-> r.raises, at |-> r.at])

\* BioSim.set_animal_parameters(species, params) on the simulation as
\* constructed.
SetAnimalParameters ==
    /\ pc = "idle"
    /\ IsNone(last_update)
    /\ \E species \in UpdateSpecies : \E items \in UpdateDicts :
          ParametersSet(species, items,
                        SetAnimalParametersResult(params, species, items))
    /\ UNCHANGED << map_vars, count_vars, neighbors, year_vars, seed_vars >>
    /\ UNCHANGED << adds, animals, next_id, cell_animals, available_food,
                   total_animals, sim_year, year, num_years, pc, at, hist, done,
                   hunt_log >>

NextParams == SetAnimalParameters

SpecParams == Init /\ [][NextParams]_vars

\* --------------------------------------------------- neighbor_cells alone

\* The rows inside the border: water or lowland in every place.
InnerLines == [1..InnerCols -> {"W", "L"}]

\* A line of water of the width of the island.
WaterLine == [c \in 1..(InnerCols + 2) |-> "W"]

\* The islands tried: a border of water around every choice of inner rows,
\* the first inner cell also a highland or a desert.
NeighborMaps ==
    {<< WaterLine >>
        \o [r \in 1..InnerRows |->
               << "W" >> \o (IF r = 1 THEN << first >> \o Tail(inner[r]) ELSE inner[r])
                   \o << "W" >>]
        \o << WaterLine >> :
     inner \in [1..InnerRows -> InnerLines], first \in {"L", "H", "D"}}
        \cup {<< WaterLine >>
                 \o [r \in 1..InnerRows |-> << "W" >> \o inner[r] \o << "W" >>]
                 \o << WaterLine >> :
              inner \in [1..InnerRows -> InnerLines]}

\* The coordinates neighbor_cells is called with: those of the island and a
\* ring of coordinates around it.
ProbePositions == (0..(InnerRows + 3)) \X (0..(InnerCols + 3))

\* An island built from one of the maps; no population.
InitNeighbors ==
    /\ \E lines \in NeighborMaps :
          /\ island_map = JoinLines(lines)
          /\ built = BuildIsland(JoinLines(lines)).raises
          /\ complete_map = BuildIsland(JoinLines(lines)).complete_map
    /\ neighbors = None
    /\ Unseeded
    /\ params = DefaultParams
    /\ animals = << >>
    /\ hist = << >>
    /\ next_id = 1
    /\ cell_animals = [pos \in DOMAIN complete_map |-> [Herbivore |-> << >>, Carnivore |-> << >>]]
    /\ available_food = << >>
    /\ total_animals = [pos \in DOMAIN complete_map |-> 0]
    /\ sim_year = 0
    /\ year = 0
    /\ num_years = 0
    /\ pc = "idle"
    /\ at = AtRest
    /\ adds = 0
    /\ done = << >>
    /\ hunt_log = << >>
    /\ total_animals_species = [species \in Species |-> 0]
    /\ island_total = 0
    /\ last_update = None
    /\ before_migration = [species \in Species |-> 0]
    /\ year_start = << >>
    /\ moves = << >>

\* Island.neighbor_cells(current_pos)
NeighborCellsCall ==
    /\ built = "ok"
    /\ IsNone(neighbors)
    /\ \E current_pos \in ProbePositions :
          neighbors' = Some([current_pos |-> current_pos,
                             result |-> NeighborCellsIn(complete_map, current_pos, 1)])
    /\ UNCHANGED << map_vars, count_vars, last_update, year_vars, seed_vars >>
    /\ UNCHANGED << adds, params, animals, next_id, cell_animals, available_food,
                   total_animals, sim_year, year, num_years, pc, at, hist, done,
                   hunt_log >>

NextNeighbors == NeighborCellsCall

SpecNeighbors == InitNeighbors /\ [][NextNeighbors]_vars

\* ---------------------------------------------------------------- claims

LegalCells == {pos \in Coords : LegalCell(pos)}

\* The residents of the passable cells.
Residents == UNION {Range(CellList(cell_animals, pos)) : pos \in LegalCells}

\* The steps of a year numbered 1 .. 12: phase 1 ends with step 6, the
\* migration phase with step 8.
LastOfPhase1 == Len(PhaseSteps[1])
LastOfPhase2 == Len(PhaseSteps[1]) + Len(PhaseSteps[2])

\* C1: within one year_loop every passable cell has completed phase 1 before
\* any cell starts migration, every passable cell has completed migration and
\* update_animals_after_migration before any cell starts aging, weight loss,
\* death or the full compaction, and no call is ever made on a water cell.
C1_PhaseOrder ==
    /\ \A pos \in Coords \ LegalCells : done[pos] = 0
    /\ pc = "cells" => LegalCell(Here)
    /\ \A c \in LegalCells :
          /\ (done[c] > LastOfPhase1 \/ (pc = "cells" /\ at.phase > 1))
                => \A d \in LegalCells : done[d] >= LastOfPhase1
          /\ (done[c] > LastOfPhase2 \/ (pc = "cells" /\ at.phase > 2))
                => \A d \in LegalCells : done[d] >= LastOfPhase2

\* C1 witness: one passable cell has migrated while another one has made
\* exactly its phase-1 calls.
C1_Witness ==
    \E c, d \in LegalCells :
        c # d /\ done[c] > LastOfPhase1 /\ done[d] = LastOfPhase1

\* C2: after construction, after add_population, at the end of the migration
\* phase and after every completed year (indeed at every moment but between
\* migrate_to_new_cell and update_animals_after_migration of one cell), every
\* organism is in the list of exactly one cell, exactly once, and its position
\* is that cell's coordinate.
C2_OneCellEach ==
    ~InStep("after_migration") =>
        /\ \A pos \in Coords : Range(CellList(cell_animals, pos)) \subseteq DOMAIN animals
        /\ \A i \in DOMAIN animals :
              /\ Occurrences(cell_animals, i) = 1
              /\ i \in Range(CellList(cell_animals, animals[i].position))

\* C2 witness: the migration phase is over and an organism has left the cell
\* it was put or born in.
C2_Witness ==
    /\ pc = "cells" /\ at.phase = Len(PhaseSteps)
    /\ \E i \in DOMAIN animals : animals[i].position # hist[i].born_pos

\* C3: in every reachable state no organism is resident in a water cell.
C3_NoneInWater ==
    \A pos \in Coords \ LegalCells : CellList(cell_animals, pos) = << >>

\* C4: the stored fitness of every organism is the fitness function of its
\* current age and weight after every operation on it.
C4_FitnessCurrent ==
    \A i \in DOMAIN animals :
        animals[i].fitness
            = FitnessValue(ParamsOf(animals, i), animals[i].age, animals[i].weight)

\* An organism born in the year in progress.
BornThisYear(i) ==
    /\ pc \in {"cells", "year_end", "raised"}
    /\ hist[i].born = Some(sim_year)

\* C5 as stated: an organism born in a year's procreation is not moved to
\* another cell during the migration phase of that year.
C5_NewbornStays ==
    \A i \in DOMAIN animals :
        BornThisYear(i) => animals[i].position = hist[i].born_pos

\* C5 amended: a newborn takes part in the migration phase of its birth year
\* like every other resident; it makes at most one migration decision, so by
\* the end of the year it is in its birth cell or, having decided, in a
\* passable cell next to it.
C5_NewbornMovesAtMostOnce ==
    \A i \in DOMAIN animals :
        BornThisYear(i) =>
            \/ animals[i].position = hist[i].born_pos
            \/ /\ animals[i].migration_status
               /\ animals[i].position \in Range(NeighborCells(hist[i].born_pos))

\* C5 witness: a newborn is in another cell than the one it was born in.
C5_Witness ==
    \E i \in DOMAIN animals :
        BornThisYear(i) /\ animals[i].position # hist[i].born_pos

\* C6: when procreation is about to run on a cell, the gate
\* _already_given_birth_year blocks a resident exactly when it has given
\* birth in the current simulated year.
C6_BirthGateExact ==
    InStep("procreate") =>
        \A i \in Range(CellList(cell_animals, Here)) :
            AlreadyGivenBirthYear(animals[i], year)
                <=> hist[i].last_birth = Some(sim_year)

\* C7: every organism has weight >= 0 and fitness in [0, 1], and its fitness
\* is 0 exactly when its weight is <= 0.
C7_WeightFitnessRange ==
    \A i \in DOMAIN animals :
        /\ animals[i].weight >= 0
        /\ 0 <= animals[i].fitness /\ animals[i].fitness <= FitOne
        /\ animals[i].fitness = 0 <=> animals[i].weight <= 0

\* C8: once the death flag of an organism is set no step clears it, and
\* update_death_status on a dead organism leaves it dead whatever number is
\* drawn.
C8_DeathMonotonic ==
    /\ [](\A i \in DOMAIN animals : \A rand \in RandDraws :
             animals[i].death_status =>
                UpdateDeathStatus(ParamsOf(animals, i), animals[i], FALSE, rand).death_status)
    /\ [][\A i \in DOMAIN animals \cap DOMAIN animals' :
             animals[i].death_status => animals'[i].death_status]_vars

\* C8 witness: an organism killed in a hunt is still in its cell's list.
C8_Witness ==
    \E i \in Residents : animals[i].death_status /\ InStep("compact_herb")

\* C9: after every completed year no resident of a passable cell has its
\* death flag set, and none has a weight <= 0.
C9_NoDeadAtYearEnd ==
    pc \in {"year_end", "idle", "loop"} =>
        \A i \in Residents : ~animals[i].death_status /\ animals[i].weight > 0

\* C9 witness: a year is completed in which an organism was removed.
C9_Witness ==
    /\ pc = "year_end"
    /\ \E i \in 1..(next_id - 1) : i \notin DOMAIN animals

\* The fitness gap of a hunt_log entry and whether it lets the hunter kill.
Gap(e) == e.hunter_fitness - e.prey_fitness

KillAllowed(e) ==
    /\ ~e.prey_dead
    /\ Gap(e) > 0
    /\ \/ Gap(e) >= params.Carnivore.DeltaPhiMax[1] * Thousand
       \/ e.rand < (Gap(e) * Thousand) \div params.Carnivore.DeltaPhiMax[1]

\* C10: a hunter considers its prey in ascending order of fitness; a prey is
\* killed if and only if it is not dead, the hunter's current fitness is
\* strictly greater than its own and the gap reaches the cap or the number
\* drawn is below gap / cap; a prey once killed is never killed or eaten again.
C10_HuntRule ==
    \A k \in DOMAIN hunt_log :
        /\ hunt_log[k].killed <=> KillAllowed(hunt_log[k])
        /\ Gap(hunt_log[k]) = 0 => ~hunt_log[k].killed
        /\ ~hunt_log[k].killed => hunt_log[k].weight_gain = 0
        /\ \A j \in 1..(k - 1) :
              /\ hunt_log[j].hunter = hunt_log[k].hunter
                    => hunt_log[j].prey_fitness <= hunt_log[k].prey_fitness
              /\ (hunt_log[j].prey = hunt_log[k].prey /\ hunt_log[j].killed)
                    => hunt_log[k].prey_dead /\ ~hunt_log[k].killed

\* C10 witness: a hunter has missed one prey and then met a live prey of its
\* own fitness.
C10_Witness ==
    \E j, k \in DOMAIN hunt_log :
        /\ j < k
        /\ hunt_log[j].hunter = hunt_log[k].hunter
        /\ Gap(hunt_log[j]) > 0 /\ ~hunt_log[j].killed
        /\ Gap(hunt_log[k]) = 0 /\ ~hunt_log[k].prey_dead

RECURSIVE CreditedUpTo(_, _)
\* The prey weight credited to hunter h in the first k entries of hunt_log.
CreditedUpTo(h, k) ==
    IF k = 0 THEN 0
    ELSE (IF hunt_log[k].hunter = h THEN hunt_log[k].weight_gain ELSE 0)
         + CreditedUpTo(h, k - 1)

RECURSIVE GainedUpTo(_, _)
\* The weight hunter h has put on for the first k entries of hunt_log.
GainedUpTo(h, k) ==
    IF k = 0 THEN 0
    ELSE (IF hunt_log[k].hunter = h
          THEN Times(params.Carnivore.beta, hunt_log[k].weight_gain) ELSE 0)
         + GainedUpTo(h, k - 1)

\* The first entry of hunter h in hunt_log.
FirstEntry(h) ==
    hunt_log[CHOOSE k \in DOMAIN hunt_log :
                /\ hunt_log[k].hunter = h
                /\ \A j \in 1..(k - 1) : hunt_log[j].hunter # h]

\* C11: in one hunt the prey weight credited to the hunter never exceeds F:
\* a prey is only considered while the intake is below F, a kill credits
\* min(prey weight, F - intake so far), and when the cell's hunts are over
\* each hunter has gained exactly beta times what was credited to it, at
\* most beta * F.
C11_IntakeCapped ==
    /\ \A k \in DOMAIN hunt_log :
          /\ CreditedUpTo(hunt_log[k].hunter, k - 1) < params.Carnivore.F
          /\ CreditedUpTo(hunt_log[k].hunter, k - 1) = hunt_log[k].eaten_before
          /\ CreditedUpTo(hunt_log[k].hunter, k) <= params.Carnivore.F
          /\ hunt_log[k].killed =>
                hunt_log[k].weight_gain
                    = Min(hunt_log[k].prey_weight,
                          params.Carnivore.F - CreditedUpTo(hunt_log[k].hunter, k - 1))
    /\ InStep("compact_herb") =>
          \A k \in DOMAIN hunt_log :
              /\ animals[hunt_log[k].hunter].weight
                    = FirstEntry(hunt_log[k].hunter).hunter_weight
                      + GainedUpTo(hunt_log[k].hunter, Len(hunt_log))
              /\ GainedUpTo(hunt_log[k].hunter, Len(hunt_log))
                    <= Times(params.Carnivore.beta, params.Carnivore.F)

\* C11 witness: the surplus of a kill was wasted and the hunt ended with a
\* live prey of the cell left unconsidered.
C11_Witness ==
    /\ InStep("compact_herb")
    /\ \E k \in DOMAIN hunt_log :
          /\ hunt_log[k].killed
          /\ hunt_log[k].weight_gain < hunt_log[k].prey_weight
          /\ \E i \in Range(cell_animals[Here].Herbivore) :
                /\ ~animals[i].death_status
                /\ \A j \in DOMAIN hunt_log : hunt_log[j].prey # i

\* The four conditions of a birth as the documentation of give_birth lists
\* them, for parent a among N of its species, the numbers drawn being rand
\* and w_birth + z * sigma_birth.
FourGates(p, a, N, yr, rand, z) ==
    /\ rand < Min(FitOne, Times(p.gamma * (N - 1), a.fitness))
    /\ a.weight * Thousand >= p.zeta * (p.w_birth + p.sigma_birth)
    /\ ~AlreadyGivenBirthYear(a, yr)
    /\ a.weight >= Times(p.xi, p.w_birth + z * p.sigma_birth)

\* The animals procreation is about to call give_birth on.
AboutToBreed == IF InStep("procreate") THEN Range(CellList(cell_animals, Here)) ELSE {}

\* The 'number' procreation passes to give_birth for animal i.
NumberFor(i) == Len(cell_animals[Here][animals[i].species])

\* C12: give_birth returns an offspring if and only if all four conditions
\* hold, whatever numbers are drawn; an animal alone of its species in the
\* cell never gives birth.
C12_BirthIffGates ==
    \A i \in AboutToBreed : \A rand \in RandDraws, z \in ZDraws :
        /\ ~IsNone(GiveBirth(ParamsOf(animals, i), animals[i], NumberFor(i),
                             year, rand, z).baby)
              <=> FourGates(ParamsOf(animals, i), animals[i], NumberFor(i),
                            year, rand, z)
        /\ NumberFor(i) = 1 =>
              IsNone(GiveBirth(ParamsOf(animals, i), animals[i], NumberFor(i),
                               year, rand, z).baby)

\* The effect the documentation of give_birth gives for the result b of a call
\* on parent a with w_birth + z * sigma_birth drawn: an offspring of the
\* parent's species, age 0, the drawn weight and the parent's position at
\* the cost of xi times that weight, or no offspring and no cost.
BirthEffect(p, a, z, b) ==
    IF IsNone(b.baby)
    THEN b.parent.weight = a.weight /\ ~b.parent.given_birth
    ELSE /\ b.baby[1].species = a.species
         /\ b.baby[1].age = 0
         /\ b.baby[1].weight = p.w_birth + z * p.sigma_birth
         /\ b.baby[1].position = a.position
         /\ b.parent.weight = a.weight - Times(p.xi, p.w_birth + z * p.sigma_birth)
         /\ b.parent.given_birth

\* C13: a give_birth that returns an offspring returns one of the parent's
\* species, of age 0, of the drawn weight, at the parent's position, lowers
\* the parent's weight by xi times the drawn weight and sets given_birth; a
\* give_birth that returns none leaves the parent's weight alone and
\* given_birth false.
C13_BirthEffect ==
    \A i \in AboutToBreed : \A rand \in RandDraws, z \in ZDraws :
        BirthEffect(ParamsOf(animals, i), animals[i], z,
                    GiveBirth(ParamsOf(animals, i), animals[i], NumberFor(i),
                              year, rand, z))

\* What the k-th grazer of a cell with budget f_max eats when each grazer
\* before it has eaten min(F, what was left).
Share(f_max, k) ==
    Min(params.Herbivore.F,
        IF f_max > (k - 1) * params.Herbivore.F
        THEN f_max - (k - 1) * params.Herbivore.F ELSE 0)

\* feeding_herbivores on the grazers herbs of the cell Here has given r.
FedAsStated(herbs, r) ==
    IF IsNone(FMax(Here))
    THEN r.animals = animals /\ IsNone(r.available_food)
    ELSE /\ \A k \in DOMAIN herbs :
               r.animals[herbs[k]].weight
                   = animals[herbs[k]].weight
                     + Times(params.Herbivore.beta, Share(FMax(Here)[1], k))
         /\ \A i \in DOMAIN animals \ Range(herbs) : r.animals[i] = animals[i]
         /\ r.available_food
               = Some(FMax(Here)[1]
                      - Min(FMax(Here)[1], Len(herbs) * params.Herbivore.F))

\* C14: the budget of a cell is null or between 0 and the landscape maximum
\* once the year's reset is done; when feeding_herbivores is about to run the
\* budget is the landscape maximum and the grazers stand in descending order
\* of fitness; the call makes the k-th grazer eat min(F, what is left) and
\* leaves the budget lower by exactly what was eaten; with a null budget it
\* changes nothing.
C14_GrazersFeed ==
    /\ \A pos \in Coords :
          \/ IsNone(available_food[pos]) /\ IsNone(FMax(pos))
          \/ /\ ~IsNone(available_food[pos]) /\ ~IsNone(FMax(pos))
             /\ available_food[pos][1] >= 0
             /\ done[pos] >= 2 => available_food[pos][1] <= FMax(pos)[1]
    /\ InStep("feed_herb") =>
          /\ available_food[Here] = FMax(Here)
          /\ \A j, k \in DOMAIN cell_animals[Here].Herbivore :
                j < k => animals[cell_animals[Here].Herbivore[j]].fitness
                            >= animals[cell_animals[Here].Herbivore[k]].fitness
          /\ FedAsStated(cell_animals[Here].Herbivore,
                         FeedingHerbivores(animals, cell_animals[Here].Herbivore,
                                           available_food[Here]))

\* C14 witness: feeding_herbivores has emptied the budget of a cell with two
\* or more grazers.
C14_Witness ==
    /\ InStep("feed_carn")
    /\ available_food[Here] = Some(0)
    /\ Len(cell_animals[Here].Herbivore) >= 2

\* Two calls of check_if_animal_migrates in a row on animal a, the numbers
\* drawn being r1 and r2: the first sets the flag and, if the flag was clear,
\* returns whether r1 < mu * fitness; the second returns False and changes
\* nothing.
DecidesOnce(p, a, r1, r2) ==
    LET first == CheckIfAnimalMigrates(p, a, r1)
        second == CheckIfAnimalMigrates(p, first.animal, r2)
    IN  /\ first.animal.migration_status
        /\ ~a.migration_status =>
              /\ first.result = (r1 < Times(p.mu, a.fitness))
              /\ first.animal = [a EXCEPT !.migration_status = TRUE]
        /\ a.migration_status => ~first.result /\ first.animal = a
        /\ ~second.result
        /\ second.animal = first.animal

\* C15: check_if_animal_migrates decides once per year: between the yearly
\* reset of a cell and the migration phase the flag of its residents is
\* clear; the first call sets the flag and returns the result of the draw;
\* every further call returns False and changes nothing, whatever is drawn.
C15_MigrationDecidedOnce ==
    /\ \A pos \in LegalCells :
          (pc = "cells" /\ at.phase = 1 /\ done[pos] >= 2) =>
              \A i \in Range(CellList(cell_animals, pos)) : ~animals[i].migration_status
    /\ \A i \in DOMAIN animals : \A r1, r2 \in RandDraws :
          DecidesOnce(ParamsOf(animals, i), animals[i], r1, r2)

\* C15 witness: migrate_animals is about to run on a cell one of whose
\* residents has already decided this year.
C15_Witness ==
    /\ InStep("migrate")
    /\ \E i \in Range(CellList(cell_animals, Here)) : animals[i].migration_status

\* The draws migrate_to_new_cell can make for the residents of the cell Here.
MigrationDraws ==
    [Range(CellList(cell_animals, Here)) -> [rand : RandDraws, move : MigrationMoves]]

\* The candidates of m whose potential position is off the grid or a cell
\* that is not passable, and the others.
IllegalCandidates(m) ==
    {k \in DOMAIN m.candidates : m.candidates[k].potential \notin LegalCells}

LegalCandidatesTo(m, pos) ==
    {k \in DOMAIN m.candidates : m.candidates[k].potential = pos /\ pos \in LegalCells}

\* migrate_to_new_cell on the cell Here, migrate_animals having returned m:
\* a candidate for an illegal position keeps its position and its place in
\* the list of the cell, with its flag set, and the counters change by the
\* legal moves only.
IllegalStays(m, r) ==
    /\ \A k \in IllegalCandidates(m) :
          /\ r.animals[m.candidates[k].animal].position
                = animals[m.candidates[k].animal].position
          /\ r.animals[m.candidates[k].animal].migration_status
          /\ Occurrences(r.cell_animals, m.candidates[k].animal) = 1
          /\ m.candidates[k].animal \in Range(CellList(r.cell_animals, Here))
    /\ \A pos \in Coords \ {Here} :
          r.total_animals[pos]
              = total_animals[pos] + Cardinality(LegalCandidatesTo(m, pos))
    /\ r.total_animals[Here]
          = total_animals[Here]
            - (Len(m.candidates) - Cardinality(IllegalCandidates(m)))
    /\ IllegalCandidates(m) = DOMAIN m.candidates =>
          r.cell_animals = cell_animals /\ r.total_animals = total_animals

\* C16: a migration candidate whose potential position is not a passable
\* neighbour is left where it is, without an error: its position, the lists
\* and the counters of both cells are unchanged and its migration flag is set.
C16_IllegalMoveNoOp ==
    InStep("migrate") =>
        \A draws \in MigrationDraws :
            IllegalStays(
                MigrateAnimals(animals, CellList(cell_animals, Here), 1, draws, << >>),
                MoveCandidates(
                    MigrateAnimals(animals, CellList(cell_animals, Here), 1, draws, << >>),
                    cell_animals, total_animals, Here))

\* C16 witness: migrate_to_new_cell is about to run on a cell where one
\* resident can draw a move into water while another one draws a legal move.
C16_Witness ==
    /\ InStep("migrate")
    /\ \E draws \in MigrationDraws :
          /\ IllegalCandidates(MigrateAnimals(animals, CellList(cell_animals, Here),
                                              1, draws, << >>)) # {}
          /\ \E pos \in LegalCells :
                LegalCandidatesTo(MigrateAnimals(animals, CellList(cell_animals, Here),
                                                 1, draws, << >>), pos) # {}

\* The lines of the map string the island is built from.
Lines == SplitLines(island_map)

\* The cells of a layout: row and column, both counted from 1.
CellsOf(lines) == UNION {{<< r, c >> : c \in DOMAIN lines[r]} : r \in DOMAIN lines}

Unrecognized(lines) ==
    \E pos \in CellsOf(lines) : lines[pos[1]][pos[2]] \notin {"W", "H", "L", "D"}

UnequalRows(lines) ==
    \E r1, r2 \in DOMAIN lines : Len(lines[r1]) # Len(lines[r2])

BorderNotWater(lines) ==
    \E pos \in CellsOf(lines) :
        /\ \/ pos[1] = 1
           \/ pos[1] = Len(lines)
           \/ pos[2] = 1
           \/ pos[2] = Len(lines[pos[1]])
        /\ lines[pos[1]][pos[2]] # "W"

Defective(lines) == Unrecognized(lines) \/ UnequalRows(lines) \/ BorderNotWater(lines)

\* The construction failed, and before any cell was built.
Refused == built \notin {"new", "ok"} /\ complete_map = << >>

\* The construction succeeded with the mapping of the layout.
Accepted(lines) ==
    /\ built = "ok"
    /\ DOMAIN complete_map = CellsOf(lines)
    /\ \A pos \in CellsOf(lines) : complete_map[pos] = lines[pos[1]][pos[2]]

ParameterNames(species) ==
    {"w_birth", "sigma_birth", "beta", "eta", "a_half", "phi_age", "w_half",
     "phi_weight", "mu", "gamma", "zeta", "xi", "omega", "F"}
        \cup (IF species = "Carnivore" THEN {"DeltaPhiMax"} ELSE {})

\* An entry the update has to reject: no parameter of the species (the
\* species identity and unknown names), eta outside [0, 1], DeltaPhiMax <= 0,
\* or a negative value.
Offending(species, item) ==
    IF item[1] \notin ParameterNames(species) THEN TRUE
    ELSE \/ item[1] = "eta" /\ (item[2] < 0 \/ item[2] > Thousand)
         \/ item[1] = "DeltaPhiMax" /\ item[2] <= 0
         \/ item[2] < 0

\* The place of the first offending entry of the dict (0 when it has none).
FirstOffending(species, items) ==
    IF \E k \in DOMAIN items : Offending(species, items[k])
    THEN CHOOSE k \in DOMAIN items :
            /\ Offending(species, items[k])
            /\ \A j \in 1..(k - 1) : ~Offending(species, items[j])
    ELSE 0

\* The class attribute named by the item has the value of the item.
Applied(attrs, item) ==
    attrs[item[1]] = (IF item[1] = "DeltaPhiMax" THEN Some(item[2]) ELSE item[2])

\* The class attribute named by the item, if there is one, is as it was.
Untouched(attrs, before, item) ==
    item[1] \in DOMAIN before => attrs[item[1]] = before[item[1]]

\* The call u of set_animal_parameters went as C18 says, k being the place
\* of its first offending entry.
RejectsAndApplies(u, k) ==
    /\ u.raises <=> k # 0
    /\ u.at = k
    /\ k # 0 => Untouched(params[u.species], u.before[u.species], u.items[k])
    /\ \A j \in DOMAIN u.items :
          (k = 0 \/ j < k) => Applied(params[u.species], u.items[j])
    /\ \A i \in DOMAIN animals :
          animals[i].species = u.species => ParamsOf(animals, i) = params[u.species]

\* C18: an update of the parameters of a species stops with an error at the
\* first entry that names no parameter of the species, names the species
\* identity, gives eta outside [0, 1], DeltaPhiMax <= 0 or a negative value,
\* and leaves the attribute of that entry as it was; every entry it accepts
\* is applied to the class, where every organism of the species reads it.
C18_UpdateValidates ==
    \A u \in Range(last_update) :
        u.species \in Species =>
            RejectsAndApplies(u, FirstOffending(u.species, u.items))

\* C18 witness: a carnivore update whose second entry, eta = 2, was rejected
\* and not applied after its first entry was applied.
C18_Witness ==
    \E u \in Range(last_update) :
        /\ u.species = "Carnivore"
        /\ u.items = << << "w_birth", 500 >>, << "eta", 2000 >> >>
        /\ u.raises
        /\ params.Carnivore.eta = u.before.Carnivore.eta
        /\ params.Carnivore.w_birth = 500
        /\ \E i \in DOMAIN animals : animals[i].species = "Carnivore"

\* C19: when the k-th entry of an update is rejected, the entries before it
\* are applied and stay applied, and the attributes named by the k-th and
\* all later entries are as they were before the call.
C19_UpdateNotAtomic ==
    \A u \in Range(last_update) :
        u.species \in Species /\ u.raises =>
            /\ u.at \in DOMAIN u.items
            /\ \A j \in DOMAIN u.items :
                  IF j < u.at
                  THEN Applied(params[u.species], u.items[j])
                  ELSE Untouched(params[u.species], u.before[u.species], u.items[j])

\* C19 witness: the second of three entries was rejected; the first one has
\* changed its attribute, the third one, though valid, has not.
C19_Witness ==
    \E u \in Range(last_update) :
        /\ u.species = "Herbivore"
        /\ u.items = << << "w_birth", 2000 >>, << "DeltaPhiMax", 500 >>,
                        << "eta", 500 >> >>
        /\ u.raises
        /\ u.at = 2
        /\ params.Herbivore.w_birth = 2000
        /\ u.before.Herbivore.w_birth # 2000
        /\ params.Herbivore.eta = u.before.Herbivore.eta
        /\ params.Herbivore.eta # 500

\* The places of the lists of a species in the passable cells.
PlacesOf(ca, species) ==
    UNION {{<< pos, j >> : j \in DOMAIN ca[pos][species]} : pos \in LegalCells}

\* What total_population has to return for the cells as they are.
FreshCount(ca) ==
    [species |-> [species \in Species |-> Cardinality(PlacesOf(ca, species))],
     total |-> Cardinality(PlacesOf(ca, "Herbivore"))
               + Cardinality(PlacesOf(ca, "Carnivore"))]

\* The first state of a year: simulate has just read the counts.
JustCounted ==
    /\ pc = "cells"
    /\ Some(at) = YearLoopFirst
    /\ \A pos \in Coords : done[pos] = 0

\* C20: whenever get_total_animals can be called, whatever counters earlier
\* calls have left and whatever the running counters of the cells are, it
\* returns for each species the number of its residents in the passable cells
\* and the sum of the two as the combined total; the counts simulate has
\* just read at the start of a year are those of the cells.
C20_FreshScan ==
    /\ pc \in {"idle", "loop", "raised"} =>
          GetTotalAnimals(total_animals_species, cell_animals) = FreshCount(cell_animals)
    /\ JustCounted =>
          /\ total_animals_species = FreshCount(cell_animals).species
          /\ island_total = FreshCount(cell_animals).total

\* C20 witness: at the start of a later year the counts were read again;
\* the running counter of a passable cell differs from the length of its
\* lists, and an organism in a water cell is not counted.
C20_Witness ==
    /\ JustCounted
    /\ sim_year >= 1
    /\ island_total >= 1
    /\ \E pos \in LegalCells : total_animals[pos] # Len(CellList(cell_animals, pos))
    /\ \E pos \in Coords \ LegalCells : CellList(cell_animals, pos) # << >>

\* The four cardinal-adjacent coordinates: up, right, down, left.
Adjacent(pos) ==
    << << pos[1] - 1, pos[2] >>, << pos[1], pos[2] + 1 >>,
       << pos[1] + 1, pos[2] >>, << pos[1], pos[2] - 1 >> >>

\* The coordinate is a key of the grid and names a passable cell.
PassableKey(pos) == pos \in DOMAIN complete_map /\ complete_map[pos] \in {"L", "H", "D"}

\* C21: neighbor_cells returns the up, right, down and left neighbours of the
\* coordinate, in that order, that are keys of the grid and name a passable
\* cell, and nothing else; the call leaves the grid and the cells as they are.
C21_NeighborsExact ==
    /\ [](\A n \in Range(neighbors) :
             n.result = SelectSeq(Adjacent(n.current_pos), PassableKey))
    /\ [][neighbors' # neighbors =>
             UNCHANGED << complete_map, cell_animals, total_animals, animals >>]_vars

\* C21 witness: a call on a cell with a desert above, lowland on its right
\* and below and water on its left.
C21_Witness ==
    \E n \in Range(neighbors) :
        /\ n.current_pos = << 3, 2 >>
        /\ n.result = << << 2, 2 >>, << 3, 3 >>, << 4, 2 >> >>
        /\ complete_map[<< 2, 2 >>] = "D"

\* C23: after the construction and after every completed year the running
\* counter of every cell is the number of organisms in its two lists.
C23_CounterMatchesLists ==
    pc \in {"idle", "loop"} =>
        \A pos \in Coords : total_animals[pos] = Len(CellList(cell_animals, pos))

\* The numbers procreation can draw on the cell at hand.
BirthDraws == [Range(CellList(cell_animals, Here)) -> [rand : RandDraws, z : ZDraws]]

\* procreation on the cell at hand with the draws.
ProcreationHere(draws) ==
    Procreation(animals, hist, cell_animals[Here], total_animals[Here], next_id,
                year, sim_year, Here, draws)

\* The calls of give_birth C24 asks for: one for each resident at the start,
\* herbivores first, each with the length of its species' list at the start.
CallsAtStart ==
    [k \in DOMAIN CellList(cell_animals, Here) |->
        << CellList(cell_animals, Here)[k], NumberFor(CellList(cell_animals, Here)[k]) >>]

\* The newborns of r follow the residents in the lists, and give_birth was
\* called on none of them.
NewbornsLast(r) ==
    \A species \in Species :
        /\ Len(r.lists[species]) >= Len(cell_animals[Here][species])
        /\ \A k \in DOMAIN r.lists[species] :
              IF k <= Len(cell_animals[Here][species])
              THEN r.lists[species][k] = cell_animals[Here][species][k]
              ELSE /\ r.lists[species][k] \notin DOMAIN animals
                   /\ \A c \in Range(r.calls) : c[1] # r.lists[species][k]

\* C24: in procreation give_birth is called exactly once for each resident
\* of the cell at the start, with the count of its species taken at the
\* start, and the newborns join the lists after all of these calls without
\* a call on any of them.
C24_EveryResidentAttempts ==
    InStep("procreate") =>
        \A draws \in BirthDraws :
            /\ ProcreationHere(draws).calls = CallsAtStart
            /\ NewbornsLast(ProcreationHere(draws))

\* The herbivores with the death flag set that are in the list of the cell.
DeadGrazers(pos) ==
    {i \in Range(cell_animals[pos].Herbivore) : animals[i].death_status}

\* update_population(herb_only=True) on the cell at hand: the dead
\* herbivores are in no list and no longer exist afterwards, and the list of
\* carnivores and the carnivores themselves are as they were.
GrazersCompacted ==
    /\ \A i \in DeadGrazers(Here) :
          /\ i \notin DOMAIN animals'
          /\ \A pos \in Coords : i \notin Range(CellList(cell_animals', pos))
    /\ cell_animals'[Here].Carnivore = cell_animals[Here].Carnivore
    /\ \A i \in Range(cell_animals[Here].Carnivore) : animals'[i] = animals[i]

\* C25: a herbivore killed in the hunt is taken out of its cell before
\* procreation: a list holds a dead herbivore only while the compaction of
\* its cell is the next call, so none is counted, attempts a birth, migrates
\* or is aged; the compaction after the hunt removes the dead herbivores for
\* good and leaves the carnivore list untouched.
C25_KilledGrazerGone ==
    /\ [](\A pos \in Coords :
             DeadGrazers(pos) # {} =>
                /\ pc = "cells"
                /\ pos = Here
                /\ StepName(at) \in {"compact_herb", "compact"})
    /\ [](InStep("procreate") =>
             \A draws \in BirthDraws : \A c \in Range(ProcreationHere(draws).calls) :
                 ~animals[c[1]].death_status
                 /\ c[2] = Cardinality({i \in Range(cell_animals[Here][animals[c[1]].species]) :
                                           ~animals[i].death_status}))
    /\ [][InStep("compact_herb") => GrazersCompacted]_vars
    /\ [][\A i \in 1..(next_id - 1) : i \notin DOMAIN animals => i \notin DOMAIN animals']_vars

\* C25 witness: procreation is about to run on a cell from which a herbivore
\* killed in this year's hunt has been removed, a carnivore being there.
C25_Witness ==
    /\ InStep("procreate")
    /\ cell_animals[Here].Carnivore # << >>
    /\ cell_animals[Here].Herbivore # << >>
    /\ \E k \in DOMAIN hunt_log : hunt_log[k].killed /\ hunt_log[k].prey \notin DOMAIN animals

\* The age of organism i when the year in progress began; an organism born
\* since has begun with age 0.
StartAge(i) == IF i \in DOMAIN year_start THEN year_start[i].age ELSE 0

\* The number of the k-th call of the third loop among the calls of a year.
ThirdLoopStep(k) == StepNumber([phase |-> Len(PhaseSteps), idx |-> 0, step |-> k])

\* The residents of the cell at hand.
ResidentsHere == Range(CellList(cell_animals, Here))

\* A call of the third loop leaves every organism outside the cell at hand
\* as it is, and takes none from and adds none to the organisms.
OnlyHere ==
    /\ DOMAIN animals' = DOMAIN animals
    /\ \A i \in DOMAIN animals \ ResidentsHere : animals'[i] = animals[i]

\* aging adds one year to each resident and nothing else but the fitness.
AgedOnce ==
    \A i \in ResidentsHere :
        animals'[i] = [animals[i] EXCEPT
                          !.age = @ + 1,
                          !.fitness = FitnessValue(ParamsOf(animals, i), animals[i].age + 1,
                                                   animals[i].weight)]

\* loss_of_weight takes eta times its weight from each resident once.
DecayedOnce ==
    \A i \in ResidentsHere :
        /\ animals'[i].weight = animals[i].weight
                                  - Times(ParamsOf(animals, i).eta, animals[i].weight)
        /\ animals'[i].age = animals[i].age
        /\ animals'[i].death_status = animals[i].death_status

\* death decides on each resident once and changes nothing else.
DeathEvaluatedOnce ==
    \A i \in ResidentsHere :
        /\ animals'[i] = [animals[i] EXCEPT !.death_status = animals'[i].death_status]
        /\ animals[i].weight <= 0 => animals'[i].death_status
        /\ \E rand \in RandDraws :
              animals'[i].death_status
                  <=> \/ animals[i].weight <= 0
                      \/ rand < Times(ParamsOf(animals, i).omega, FitOne - animals[i].fitness)

\* C26: in the third loop of a year each resident of a passable cell is aged
\* once, then loses weight once, then has its death decided once: the calls
\* on a cell follow each other in that order, each acts once on each resident
\* of the cell and on nothing else, so a resident's age is its age at the
\* start of the year before the aging of its cell and one more after it; at
\* the end of the year every survivor is one year older and an organism born
\* in the year has age 1.
C26_AgedOncePerYear ==
    /\ [](pc \in {"cells", "year_end"} =>
             \A pos \in LegalCells : \A i \in Range(CellList(cell_animals, pos)) :
                 animals[i].age
                     = StartAge(i) + (IF done[pos] >= ThirdLoopStep(1) THEN 1 ELSE 0))
    /\ [](pc = "cells" /\ at.phase = Len(PhaseSteps) =>
             /\ done[Here] = StepNumber(at) - 1
             /\ \A pos \in LegalCells : done[pos] >= ThirdLoopStep(1) - 1)
    /\ [](pc = "year_end" =>
             /\ \A pos \in LegalCells : done[pos] = ThirdLoopStep(Len(PhaseSteps[Len(PhaseSteps)]))
             /\ \A i \in Residents : animals[i].age = StartAge(i) + 1)
    /\ [][(pc = "cells" /\ at.phase = Len(PhaseSteps)) =>
             /\ InStep("aging") => AgedOnce /\ OnlyHere /\ done'[Here] = ThirdLoopStep(1)
             /\ InStep("weight_loss") => DecayedOnce /\ OnlyHere /\ done'[Here] = ThirdLoopStep(2)
             /\ InStep("death") => DeathEvaluatedOnce /\ OnlyHere /\ done'[Here] = ThirdLoopStep(3)
             /\ InStep("compact") => \A i \in DOMAIN animals' : animals'[i] = animals[i]]_vars

\* C26 witness: a year has ended with a survivor that changed cell and is one
\* year older than at its start, and with an organism born in the year.
C26_Witness ==
    /\ pc = "year_end"
    /\ \E i \in Residents :
          /\ i \in DOMAIN year_start
          /\ animals[i].position # year_start[i].position
          /\ animals[i].age = year_start[i].age + 1
    /\ \E i \in Residents : i \notin DOMAIN year_start /\ animals[i].age = 1

\* The second loop of year_loop has just ended: every passable cell has had
\* its migration and update_animals_after_migration, none its aging.
MigrationOver ==
    /\ pc = "cells"
    /\ at.phase = Len(PhaseSteps)
    /\ \A pos \in LegalCells : done[pos] = LastOfPhase2

\* C27: the migration loop of a year neither creates nor destroys an
\* organism: when it has ended, the number of residents of each species over
\* the passable cells is what it was when the loop began, and no call of the
\* loop adds, removes, kills or changes the species of an organism.
C27_MigrationConserves ==
    /\ [](MigrationOver =>
             \A species \in Species :
                 Cardinality(PlacesOf(cell_animals, species)) = before_migration[species])
    /\ [][(pc = "cells" /\ at.phase = 2) =>
             /\ DOMAIN animals' = DOMAIN animals
             /\ \A i \in DOMAIN animals :
                   /\ animals'[i].species = animals[i].species
                   /\ animals'[i].death_status = animals[i].death_status]_vars

\* C27 witness: the migration loop has ended, an organism having changed cell
\* in it, with residents of both species on the island.
C27_Witness ==
    /\ MigrationOver
    /\ \E i \in Residents : moves[i] = 1
    /\ \A species \in Species : before_migration[species] >= 1

\* The cell organism i was in when the year in progress began; for an
\* organism born since, the cell it was born in.
StartPosition(i) ==
    IF i \in DOMAIN year_start THEN year_start[i].position ELSE hist[i].born_pos

\* C28: in a year an organism changes cell at most once, whatever the order
\* of the cells: at every point of the year it is in the cell it began the
\* year in or in one of the four cells next to that one, a passable cell of
\* the grid, also when it has moved into a cell whose migration came later.
C28_OneMovePerYear ==
    pc \in {"cells", "year_end", "raised"} =>
        \A i \in DOMAIN animals :
            /\ i \in DOMAIN moves => moves[i] <= 1
            /\ \/ animals[i].position = StartPosition(i)
               \/ /\ animals[i].position \in Range(Adjacent(StartPosition(i)))
                  /\ PassableKey(animals[i].position)
                  /\ i \in DOMAIN moves /\ moves[i] = 1

\* C28 witness: a year has ended for an organism that moved from the first
\* passable cell into the one whose migration comes after it.
C28_Witness ==
    /\ pc = "year_end"
    /\ \E i \in DOMAIN animals \cap DOMAIN year_start :
          /\ year_start[i].position = CellOrder[NextLegal(0)]
          /\ animals[i].position = CellOrder[NextLegal(NextLegal(0))]
          /\ moves[i] = 1

\* add_population with the population on the island as it is.
AddPopulationNow(population) ==
    AddPopulationTo(population, animals, hist, cell_animals, total_animals, next_id)

\* C29: a call of add_population that ends with an exception, whatever record
\* of the population causes it, has added no animal to any cell and has left
\* the lists and the counters of all cells as they were.
C29_AddAllOrNothing ==
    pc = "idle" =>
        \A population \in AddedPops :
            AddPopulationNow(population).raises =>
                /\ AddPopulationNow(population).cell_animals = cell_animals
                /\ AddPopulationNow(population).total_animals = total_animals

\* give_birth has ended as b for parent a without an error: with an offspring
\* of positive weight, or with none and the parent as a failed attempt
\* leaves it.
EndsWell(a, b) ==
    /\ ~b.raises
    /\ IF IsNone(b.baby)
       THEN b.parent.weight = a.weight /\ ~b.parent.given_birth
       ELSE b.baby[1].weight > 0

\* C30: give_birth never ends with an error, whatever birth weight is drawn,
\* a weight <= 0 included: it returns an offspring of positive weight or none,
\* the parent then being as after a failed attempt; so no year is left in
\* its procreation.
C30_BirthNeverFails ==
    /\ pc # "raised"
    /\ \A i \in AboutToBreed : \A rand \in RandDraws, z \in ZDraws :
          EndsWell(animals[i],
                   GiveBirth(ParamsOf(animals, i), animals[i], NumberFor(i), year, rand, z))

\* Both simulations have been run for their years.
BothRun == running = 2 /\ pc = "idle" /\ sim_year = SeedYears

\* C22: two simulations built with the same seed, map and initial population
\* and run for the same number of years have the same total population after
\* each year.
C22_SameSeedSameTrajectory ==
    BothRun => first_trajectory = Some(trajectory)

====
